---- MODULE Spec2Model ----
(***************************************************************************)
(* Model of the feo speech recognition library: the text utilities         *)
(* (utils), the RecognitionManager and the useSpeechRecognition hook.      *)
(* A JavaScript string is a sequence of one-character strings.             *)
(***************************************************************************)
EXTENDS Integers, Sequences, FiniteSets, TLC

\* ------------------------------------------------------------------------
\* Characters and strings
\* ------------------------------------------------------------------------

UpperCase == <<"A", "B", "C", "D", "E", "F", "G", "H", "I", "J", "K", "L", "M",
               "N", "O", "P", "Q", "R", "S", "T", "U", "V", "W", "X", "Y", "Z">>

LowerCase == <<"a", "b", "c", "d", "e", "f", "g", "h", "i", "j", "k", "l", "m",
               "n", "o", "p", "q", "r", "s", "t", "u", "v", "w", "x", "y", "z">>

Digits == {"0", "1", "2", "3", "4", "5", "6", "7", "8", "9"}

\* \s of a JavaScript regular expression (the characters the model uses)
IsSpace(c) == c \in {" ", "\t", "\n"}

\* \w of a JavaScript regular expression: [A-Za-z0-9_]
IsWordChar(c) ==
    \/ \E i \in 1..26 : c = UpperCase[i] \/ c = LowerCase[i]
    \/ c \in Digits
    \/ c = "_"

\* String.prototype.toLowerCase, one character
LowerChar(c) ==
    IF \E i \in 1..26 : c = UpperCase[i]
    THEN LowerCase[CHOOSE i \in 1..26 : c = UpperCase[i]]
    ELSE c

toLowerCase(s) == [i \in 1..Len(s) |-> LowerChar(s[i])]

\* s.replace(/[^\w]/g, '')
stripNonWord(s) == SelectSeq(s, IsWordChar)

RECURSIVE trimStart(_)
trimStart(s) ==
    IF s # <<>> /\ IsSpace(Head(s)) THEN trimStart(Tail(s)) ELSE s

RECURSIVE trimEnd(_)
trimEnd(s) ==
    IF s # <<>> /\ IsSpace(s[Len(s)]) THEN trimEnd(SubSeq(s, 1, Len(s) - 1)) ELSE s

\* String.prototype.trim
trim(s) == trimEnd(trimStart(s))

\* s.split(/\s+/) of a string that is trimmed and not empty: the maximal
\* runs of non-space characters, in order
RECURSIVE splitWords(_, _, _)
splitWords(s, cur, acc) ==
    IF s = <<>>
    THEN IF cur = <<>> THEN acc ELSE Append(acc, cur)
    ELSE IF IsSpace(Head(s))
         THEN splitWords(Tail(s), <<>>, IF cur = <<>> THEN acc ELSE Append(acc, cur))
         ELSE splitWords(Tail(s), Append(cur, Head(s)), acc)

\* Array.prototype.join(' ')
RECURSIVE joinWords(_)
joinWords(ws) ==
    IF ws = <<>> THEN <<>>
    ELSE IF Len(ws) = 1 THEN ws[1]
    ELSE ws[1] \o <<" ">> \o joinWords(Tail(ws))

\* The tokens of a transcript
Tokens(s) == splitWords(trim(s), <<>>, <<>>)

\* ------------------------------------------------------------------------
\* utils: removeDuplicateWords, concatTranscripts, parseResultsToTranscript
\* ------------------------------------------------------------------------

\* wordKey without toLowerCase
wordKey_CaseSensitive(w) == stripNonWord(w)

\* The comparison key of a word: words[i].toLowerCase().replace(/[^\w]/g, '')
wordKey(w) == stripNonWord(toLowerCase(w))

\* The loop of removeDuplicateWords: word i is kept iff its key differs from
\* the key of word i-1 of the INPUT (previousWord is null for i = 0)
\* filterWords that drops word i only if word i-1 was not itself a duplicate of word i-2
RECURSIVE filterWords_PairsOnly(_, _, _)
filterWords_PairsOnly(words, i, filteredWords) ==
    IF i > Len(words) THEN filteredWords
    ELSE filterWords_PairsOnly(words, i + 1,
            IF /\ i > 1 /\ wordKey(words[i]) = wordKey(words[i - 1])
               /\ ~(i > 2 /\ wordKey(words[i - 1]) = wordKey(words[i - 2]))
            THEN filteredWords
            ELSE Append(filteredWords, words[i]))

RECURSIVE filterWords(_, _, _)
filterWords(words, i, filteredWords) ==
    IF i > Len(words) THEN filteredWords
    ELSE filterWords(words, i + 1,
            IF i > 1 /\ wordKey(words[i]) = wordKey(words[i - 1])
            THEN filteredWords
            ELSE Append(filteredWords, words[i]))

removeDuplicateWords(transcript) ==
    IF trim(transcript) = <<>> THEN <<>>
    ELSE joinWords(filterWords(splitWords(trim(transcript), <<>>, <<>>), 1, <<>>))

\* transcriptParts.map(t => t.trim()).join(' ')
RECURSIVE joinTrimmed(_)
joinTrimmed(transcriptParts) ==
    IF transcriptParts = <<>> THEN <<>>
    ELSE IF Len(transcriptParts) = 1 THEN trim(transcriptParts[1])
    ELSE trim(transcriptParts[1]) \o <<" ">> \o joinTrimmed(Tail(transcriptParts))

\* concatTranscripts that removes the duplicate words of every part on its own
concatTranscripts_PerPart(transcriptParts) ==
    trim(joinTrimmed([i \in 1..Len(transcriptParts) |-> removeDuplicateWords(transcriptParts[i])]))

concatTranscripts(transcriptParts) ==
    removeDuplicateWords(trim(joinTrimmed(transcriptParts)))

\* The loop of parseResultsToTranscript over results[i..]; results is a
\* sequence (1-based here, 0-based in the source) of
\* [isFinal |-> BOOLEAN, transcript |-> string]
RECURSIVE parseLoop(_, _, _)
parseLoop(results, i, acc) ==
    IF i > Len(results) THEN acc
    ELSE LET transcript == removeDuplicateWords(results[i].transcript)
         IN  parseLoop(results, i + 1,
                IF results[i].isFinal
                THEN [acc EXCEPT !.finalTranscript = @ \o transcript]
                ELSE [acc EXCEPT !.interimTranscript = @ \o transcript])

\* resultIndex is the 0-based index of the first result to process
parseResultsToTranscript(results, resultIndex) ==
    LET acc == parseLoop(results, resultIndex + 1,
                         [interimTranscript |-> <<>>, finalTranscript |-> <<>>])
    IN  [interimTranscript |-> removeDuplicateWords(acc.interimTranscript),
         finalTranscript   |-> removeDuplicateWords(acc.finalTranscript)]

\* ------------------------------------------------------------------------
\* utils: commandToRegExp and matchCommand (exact mode)
\* A pattern under translation is a sequence of symbols [k, c, body, padded]:
\*   raw c    an unescaped character of the command
\*   lit c    an escaped character (\c), matches c
\*   open     "(?:"            close    ")?"
\*   named    "([^\s]+)"       splat    "(.*?)"       ws   "\s*"
\*   opt      "(?:body)?"      bad      an unbalanced parenthesis (the RegExp constructor throws)
\* ------------------------------------------------------------------------

Sym(k, c) == [k |-> k, c |-> c, body |-> <<>>]

\* escapeRegExp = /[-{}[\]+?.,\\^$|#]/g
EscapedChars == {"-", "{", "}", "[", "]", "+", "?", ".", ",", "\\", "^", "$", "|", "#"}

\* command.replace(escapeRegExp, '\\$&')
escapeStep(command) ==
    [i \in 1..Len(command) |->
        IF command[i] \in EscapedChars THEN Sym("lit", command[i]) ELSE Sym("raw", command[i])]

IsRaw(x, c) == x.k = "raw" /\ x.c = c

\* Character classes of raw symbols: \s, \w, [^\s] and .
InClass(x, cls) ==
    x.k = "raw" /\ CASE cls = "space"    -> IsSpace(x.c)
                     [] cls = "word"     -> IsWordChar(x.c)
                     [] cls = "nonspace" -> ~IsSpace(x.c)
                     [] cls = "dot"      -> x.c # "\n"

\* The index after the run of symbols of class cls that starts at p
RECURSIVE skipRun(_, _, _)
skipRun(syms, p, cls) ==
    IF p <= Len(syms) /\ InClass(syms[p], cls) THEN skipRun(syms, p + 1, cls) ELSE p

\* The index of the first raw c at or after p, or 0
RECURSIVE findRaw(_, _, _)
findRaw(syms, p, c) ==
    IF p > Len(syms) THEN 0
    ELSE IF IsRaw(syms[p], c) THEN p
    ELSE findRaw(syms, p + 1, c)

\* .replace(optionalParam, '(?:$1)?') with optionalParam = /\s*\((.*?)\)\s*/g
RECURSIVE optionalParamStep(_, _, _)
optionalParamStep(syms, p, acc) ==
    IF p > Len(syms) THEN acc
    ELSE LET q == skipRun(syms, p, "space")
             r == IF q <= Len(syms) /\ IsRaw(syms[q], "(") THEN findRaw(syms, q + 1, ")") ELSE 0
         IN  IF r = 0
             THEN optionalParamStep(syms, p + 1, Append(acc, syms[p]))
             ELSE optionalParamStep(syms, skipRun(syms, r + 1, "space"),
                      acc \o <<Sym("open", "")>> \o SubSeq(syms, q + 1, r - 1) \o <<Sym("close", "")>>)

\* .replace(namedParam, (match, optional) => optional ? match : '([^\\s]+)')
\* with namedParam = /(\(\?)?:\w+/g
\* namedParamStep that replaces a named parameter by '(.*?)'
RECURSIVE namedParamStep_AsSplat(_, _, _)
namedParamStep_AsSplat(syms, p, acc) ==
    IF p > Len(syms) THEN acc
    ELSE LET e == skipRun(syms, p + 1, "word")
         IN  IF syms[p].k = "open" /\ e > p + 1
             THEN namedParamStep_AsSplat(syms, e, acc \o SubSeq(syms, p, e - 1))
             ELSE IF IsRaw(syms[p], ":") /\ e > p + 1
             THEN namedParamStep_AsSplat(syms, e, Append(acc, Sym("splat", "")))
             ELSE namedParamStep_AsSplat(syms, p + 1, Append(acc, syms[p]))

RECURSIVE namedParamStep(_, _, _)
namedParamStep(syms, p, acc) ==
    IF p > Len(syms) THEN acc
    ELSE LET e == skipRun(syms, p + 1, "word")
         IN  IF syms[p].k = "open" /\ e > p + 1
             THEN namedParamStep(syms, e, acc \o SubSeq(syms, p, e - 1))
             ELSE IF IsRaw(syms[p], ":") /\ e > p + 1
             THEN namedParamStep(syms, e, Append(acc, Sym("named", "")))
             ELSE namedParamStep(syms, p + 1, Append(acc, syms[p]))

\* .replace(splatParam, '(.*?)') with splatParam = /\*/g
splatStep(syms) ==
    [i \in 1..Len(syms) |-> IF IsRaw(syms[i], "*") THEN Sym("splat", "") ELSE syms[i]]

IsCapture(x) == x.k \in {"named", "splat"}

\* The index of the first close at or after p, or 0
RECURSIVE findClose(_, _)
findClose(syms, p) ==
    IF p > Len(syms) THEN 0
    ELSE IF syms[p].k = "close" THEN p
    ELSE findClose(syms, p + 1)

\* A raw character of the finished pattern source
FinishRaw(x) ==
    IF x.k = "raw" THEN (IF x.c \in {"(", ")"} THEN Sym("bad", x.c) ELSE Sym("lit", x.c)) ELSE x

\* .replace(optionalRegex, '\\s*$1?\\s*') with optionalRegex = /(\(\?:[^)]+\))\?/g:
\* a group whose body is not empty and holds no ")" (no capture) is padded with \s*
RECURSIVE optionalRegexStep(_, _, _)
optionalRegexStep(syms, p, acc) ==
    IF p > Len(syms) THEN acc
    ELSE IF syms[p].k = "open"
    THEN LET r == findClose(syms, p + 1)
             body == SubSeq(syms, p + 1, r - 1)
             group == [k |-> "opt", c |-> "", body |-> [i \in 1..Len(body) |-> FinishRaw(body[i])]]
             padded == body # <<>> /\ \A i \in 1..Len(body) : ~IsCapture(body[i])
         IN  optionalRegexStep(syms, r + 1,
                 IF padded
                 THEN acc \o <<Sym("ws", ""), group, Sym("ws", "")>>
                 ELSE Append(acc, group))
    ELSE optionalRegexStep(syms, p + 1, Append(acc, FinishRaw(syms[p])))

\* new RegExp(`^${processedCommand}$`, 'i') of a string command
commandToRegExp(command) ==
    optionalRegexStep(
        splatStep(
            namedParamStep(
                optionalParamStep(escapeStep(command), 1, <<>>), 1, <<>>)), 1, <<>>)

RegExpIsValid(re) ==
    \A i \in 1..Len(re) :
        /\ re[i].k # "bad"
        /\ \A j \in 1..Len(re[i].body) : re[i].body[j].k # "bad"

NoMatch == [ok |-> FALSE, caps |-> <<>>]

Undefined == <<"undefined">>

NumCaptures(re) == Len(SelectSeq(re, IsCapture))

\* Matching re against s from pos up to the end of s ($), with the backtracking
\* priorities of the regular expression; on success the captures in order.
\* tryLen tries the lengths n, n + d, ... (d = -1 greedy, d = 1 lazy) for a
\* quantified element and returns the first that lets the rest match.
RECURSIVE regMatch(_, _, _), tryLen(_, _, _, _, _, _, _)
regMatch(re, s, pos) ==
    IF re = <<>>
    THEN IF pos = Len(s) + 1 THEN [ok |-> TRUE, caps |-> <<>>] ELSE NoMatch
    ELSE LET e == Head(re)
             rest == Tail(re)
             chars == [i \in 1..Len(s) |-> Sym("raw", s[i])]
             nonSpace == skipRun(chars, pos, "nonspace") - pos
             spaces == skipRun(chars, pos, "space") - pos
             anyChar == skipRun(chars, pos, "dot") - pos
         IN  CASE e.k = "lit" ->
                    IF pos <= Len(s) /\ LowerChar(s[pos]) = LowerChar(e.c)
                    THEN regMatch(rest, s, pos + 1) ELSE NoMatch
               [] e.k = "named" -> tryLen(rest, s, pos, nonSpace, -1, 1, TRUE)
               [] e.k = "splat" -> tryLen(rest, s, pos, 0, 1, anyChar, TRUE)
               [] e.k = "ws"    -> tryLen(rest, s, pos, spaces, -1, 0, FALSE)
               [] e.k = "opt"   ->
                    LET with == regMatch(e.body \o rest, s, pos)
                        without == regMatch(rest, s, pos)
                    IN  IF with.ok THEN with
                        ELSE IF without.ok
                        THEN [ok |-> TRUE,
                              caps |-> [i \in 1..NumCaptures(e.body) |-> Undefined] \o without.caps]
                        ELSE NoMatch
               [] OTHER -> NoMatch

tryLen(rest, s, pos, n, d, last, capture) ==
    IF (d = -1 /\ n < last) \/ (d = 1 /\ n > last) THEN NoMatch
    ELSE LET r == regMatch(rest, s, pos + n)
         IN  IF r.ok
             THEN [ok |-> TRUE,
                   caps |-> IF capture THEN <<SubSeq(s, pos, pos + n - 1)>> \o r.caps ELSE r.caps]
             ELSE tryLen(rest, s, pos, n + d, d, last, capture)

\* transcript.match(commandToRegExp(cmd)) and match.slice(1)
matchExact(cmd, transcript) ==
    LET re == commandToRegExp(cmd)
    IN  IF RegExpIsValid(re) THEN regMatch(re, transcript, 1) ELSE NoMatch

\* ------------------------------------------------------------------------
\* utils: compareTwoStringsUsingDiceCoefficient and matchCommand (fuzzy mode)
\* A similarity is the fraction [n, d] (d > 0)
\* ------------------------------------------------------------------------

\* s.replace(/\s+/g, '')
stripSpaces(s) == SelectSeq(s, LAMBDA c : ~IsSpace(c))

\* The second loop: scanning the bigrams of second, a bigram still available in
\* firstBigrams (the bigrams of first not yet consumed, a sequence here) is
\* consumed and counted
RECURSIVE removeFirst(_, _)
removeFirst(bigrams, b) ==
    IF bigrams = <<>> THEN <<>>
    ELSE IF Head(bigrams) = b THEN Tail(bigrams)
    ELSE <<Head(bigrams)>> \o removeFirst(Tail(bigrams), b)

\* intersectionLoop that does not consume the bigram it counts
RECURSIVE intersectionLoop_NoConsume(_, _, _, _)
intersectionLoop_NoConsume(firstBigrams, second, i, intersectionSize) ==
    IF i > Len(second) - 1 THEN intersectionSize
    ELSE intersectionLoop_NoConsume(firstBigrams, second, i + 1,
            IF \E j \in 1..Len(firstBigrams) : firstBigrams[j] = SubSeq(second, i, i + 1)
            THEN intersectionSize + 1 ELSE intersectionSize)

RECURSIVE intersectionLoop(_, _, _, _)
intersectionLoop(firstBigrams, second, i, intersectionSize) ==
    IF i > Len(second) - 1 THEN intersectionSize
    ELSE LET bigram == SubSeq(second, i, i + 1)
         IN  IF \E j \in 1..Len(firstBigrams) : firstBigrams[j] = bigram
             THEN intersectionLoop(removeFirst(firstBigrams, bigram), second, i + 1,
                                   intersectionSize + 1)
             ELSE intersectionLoop(firstBigrams, second, i + 1, intersectionSize)

compareTwoStringsUsingDiceCoefficient(first0, second0) ==
    LET first == stripSpaces(first0)
        second == stripSpaces(second0)
        firstBigrams == [i \in 1..(Len(first) - 1) |-> SubSeq(first, i, i + 1)]
    IN  IF first = second THEN [n |-> 1, d |-> 1]
        ELSE IF Len(first) < 2 \/ Len(second) < 2 THEN [n |-> 0, d |-> 1]
        ELSE [n |-> 2 * intersectionLoop(firstBigrams, second, 1, 0),
              d |-> Len(first) + Len(second) - 2]

\* a >= b and a > b on fractions
FracGeq(a, b) == a.n * b.d >= b.n * a.d
FracGt(a, b) == a.n * b.d > b.n * a.d

IsAlphaNum(c) == IsWordChar(c) /\ c # "_"

\* .replace(/\s+/g, ' '): every run of whitespace becomes one space
RECURSIVE collapseSpaces(_)
collapseSpaces(s) ==
    IF s = <<>> THEN <<>>
    ELSE IF IsSpace(Head(s))
         THEN <<" ">> \o collapseSpaces(trimStart(s))
         ELSE <<Head(s)>> \o collapseSpaces(Tail(s))

\* cmd.replace(/[^a-zA-Z0-9\s]/g, ' ').replace(/\s+/g, ' ').trim()
cleanCommand(cmd) ==
    trim(collapseSpaces([i \in 1..Len(cmd) |->
            IF IsAlphaNum(cmd[i]) \/ IsSpace(cmd[i]) THEN cmd[i] ELSE " "]))

\* matchCommand(cleanCmd, transcript, true, threshold) of one string command
matchFuzzy(cmd, transcript, fuzzyMatchingThreshold) ==
    LET similarity == compareTwoStringsUsingDiceCoefficient(cleanCommand(cmd), transcript)
    IN  [isMatch |-> FracGeq(similarity, fuzzyMatchingThreshold), similarity |-> similarity]

\* matchCommand(command, transcript, isFuzzyMatch, fuzzyMatchingThreshold) of a
\* list of commands: the result of the first command that matches, which has
\* the field parameters (match.slice(1)) in exact mode and the field
\* similarity in fuzzy mode, or the result that has neither
NoMatchResult == [isMatch |-> FALSE]

\* matchCommand that tests the first command of the list only
matchCommand_FirstOnly(cmds, transcript, isFuzzyMatch, fuzzyMatchingThreshold) ==
    IF cmds = <<>> THEN NoMatchResult
    ELSE IF isFuzzyMatch
    THEN LET m == matchFuzzy(cmds[1], transcript, fuzzyMatchingThreshold)
         IN  IF m.isMatch THEN [isMatch |-> TRUE, similarity |-> m.similarity]
             ELSE NoMatchResult
    ELSE LET m == matchExact(cmds[1], transcript)
         IN  IF m.ok THEN [isMatch |-> TRUE, parameters |-> m.caps] ELSE NoMatchResult

RECURSIVE matchCommand(_, _, _, _)
matchCommand(cmds, transcript, isFuzzyMatch, fuzzyMatchingThreshold) ==
    IF cmds = <<>> THEN NoMatchResult
    ELSE IF isFuzzyMatch
    THEN LET m == matchFuzzy(Head(cmds), transcript, fuzzyMatchingThreshold)
         IN  IF m.isMatch THEN [isMatch |-> TRUE, similarity |-> m.similarity]
             ELSE matchCommand(Tail(cmds), transcript, isFuzzyMatch, fuzzyMatchingThreshold)
    ELSE LET m == matchExact(Head(cmds), transcript)
         IN  IF m.ok THEN [isMatch |-> TRUE, parameters |-> m.caps]
             ELSE matchCommand(Tail(cmds), transcript, isFuzzyMatch, fuzzyMatchingThreshold)

\* ------------------------------------------------------------------------
\* State
\* ------------------------------------------------------------------------

VARIABLES
    recognition,                \* RecognitionManager.recognition: [present, continuous, lang, attached];
                                \* present = not null, attached = the manager's handlers are the
                                \* instance's onresult / onend / onerror
    engine,                     \* the turn of the instance: "idle", "running", "stopping", "aborting"
    pauseAfterDisconnect,
    interimTranscript,
    finalTranscriptState,
    listening,
    isMicrophoneAvailable,
    previousResultWasFinalOnly,
    subscribers,                \* ids of the registered callback bundles
    hook,                       \* the useSpeechRecognition hook (subscriber HookId): options and React state
    stopCall,                   \* the promise returned by the latest stopListening / abortListening
    pendingStart,               \* a startListening suspended at "await this.stopListening()"
    out,                        \* what the latest step did, in order: recogniser primitives invoked,
                                \* subscriber notifications, command callbacks
    step,                       \* the latest step: operation, argument, and flags of the state it started in
    hist                        \* history of the result batches and of the requests of the current turn

vars == <<recognition, engine, pauseAfterDisconnect, interimTranscript, finalTranscriptState,
          listening, isMicrophoneAvailable, previousResultWasFinalOnly, subscribers, hook,
          stopCall, pendingStart, out, step, hist>>

NoRecognition == [present |-> FALSE, continuous |-> FALSE, lang |-> <<>>, attached |-> FALSE]

\* The instance setSpeechRecognition constructs and configures
NewRecognition == [present |-> TRUE, continuous |-> FALSE, lang |-> <<>>, attached |-> TRUE]

HookId == "0"

\* The program state as one record, so that a method is a function from state to state
Cur ==
    [recognition |-> recognition, engine |-> engine,
     pauseAfterDisconnect |-> pauseAfterDisconnect,
     interimTranscript |-> interimTranscript,
     finalTranscriptState |-> finalTranscriptState,
     listening |-> listening, isMicrophoneAvailable |-> isMicrophoneAvailable,
     previousResultWasFinalOnly |-> previousResultWasFinalOnly,
     subscribers |-> subscribers, hook |-> hook,
     stopCall |-> stopCall, pendingStart |-> pendingStart,
     out |-> <<>>]

\* An entry of out: t is "primitive", "callback" or the notification; to = the subscribers notified
Emit(s, t, v) == [s EXCEPT !.out = Append(@, [t |-> t, v |-> v, to |-> {}])]
Notify(s, t, v) == [s EXCEPT !.out = Append(@, [t |-> t, v |-> v, to |-> s.subscribers])]

\* ------------------------------------------------------------------------
\* RecognitionManager: the recogniser primitives
\* ------------------------------------------------------------------------

\* this.recognition.stop() / abort() on the instance: its turn, if any, is ending
enginePrimitive(e, primitive) ==
    CASE primitive = "stop"  -> IF e = "running" THEN "stopping" ELSE e
      [] primitive = "abort" -> IF e \in {"running", "stopping"} THEN "aborting" ELSE e

stop(s) ==
    IF s.recognition.present /\ s.listening
    THEN [Emit(s, "primitive", "stop") EXCEPT
            !.engine = enginePrimitive(s.engine, "stop"), !.listening = FALSE]
    ELSE s

abort(s) ==
    IF s.recognition.present /\ s.listening
    THEN [Emit(s, "primitive", "abort") EXCEPT
            !.engine = enginePrimitive(s.engine, "abort"), !.listening = FALSE]
    ELSE s

\* disconnect whose STOP case leaves pauseAfterDisconnect alone
disconnect_NoPause(s, disconnectType) ==
    IF s.recognition.present /\ s.listening
    THEN CASE disconnectType = "ABORT" -> abort([s EXCEPT !.pauseAfterDisconnect = TRUE])
           [] disconnectType = "RESET" -> abort([s EXCEPT !.pauseAfterDisconnect = FALSE])
           [] OTHER                    -> stop(s)
    ELSE s

disconnect(s, disconnectType) ==
    IF s.recognition.present /\ s.listening
    THEN CASE disconnectType = "ABORT" -> abort([s EXCEPT !.pauseAfterDisconnect = TRUE])
           [] disconnectType = "RESET" -> abort([s EXCEPT !.pauseAfterDisconnect = FALSE])
           [] OTHER                    -> stop([s EXCEPT !.pauseAfterDisconnect = TRUE])
    ELSE s

\* RecognitionManager.resetTranscript
resetTranscript(s) == disconnect(s, "RESET")

resetTranscriptState(s) ==
    [s EXCEPT !.interimTranscript = <<>>, !.finalTranscriptState = <<>>]

\* updateFinalTranscript that replaces the final transcript by the new text
updateFinalTranscript_Replace(finalTranscript, newFinalTranscript) ==
    newFinalTranscript

updateFinalTranscript(finalTranscript, newFinalTranscript) ==
    concatTranscripts(<<finalTranscript, newFinalTranscript>>)

\* ------------------------------------------------------------------------
\* useSpeechRecognition: the hook's reducer, commands and subscriber callbacks
\* ------------------------------------------------------------------------

\* The commands option of the hook: string commands and lists of string commands
\* (commandsToTest is the list of alternatives); callback names what the
\* callback does: "resetTranscript" calls the resetTranscript of its context
\* argument, "record" does nothing else
AppCommands ==
    << [command |-> << <<"c", "l", "e", "a", "r">> >>, callback |-> "resetTranscript",
        matchInterim |-> FALSE, isFuzzyMatch |-> FALSE,
        fuzzyMatchingThreshold |-> [n |-> 4, d |-> 5], bestMatchOnly |-> FALSE],
       [command |-> << <<"a">>, <<"a", " ", "*">>, <<":", "x", " ", "b">>, <<"*">> >>,
        callback |-> "none",
        matchInterim |-> TRUE, isFuzzyMatch |-> FALSE,
        fuzzyMatchingThreshold |-> [n |-> 4, d |-> 5], bestMatchOnly |-> FALSE],
       [command |-> << <<"l", "e", "a">>, <<"c", "l", "e", "a">>, <<"l", "e", "a", "r">> >>,
        callback |-> "none",
        matchInterim |-> TRUE, isFuzzyMatch |-> TRUE,
        fuzzyMatchingThreshold |-> [n |-> 1, d |-> 2], bestMatchOnly |-> TRUE],
       [command |-> << <<"l", "e", "a">>, <<"c", "l", "e", "a">>, <<"l", "e", "a", "r">> >>,
        callback |-> "none",
        matchInterim |-> TRUE, isFuzzyMatch |-> TRUE,
        fuzzyMatchingThreshold |-> [n |-> 1, d |-> 2], bestMatchOnly |-> FALSE] >>

\* Commands of which the first has a callback that throws
FailingCommands ==
    << [command |-> << <<"a">> >>, callback |-> "throw",
        matchInterim |-> TRUE, isFuzzyMatch |-> FALSE,
        fuzzyMatchingThreshold |-> [n |-> 4, d |-> 5], bestMatchOnly |-> FALSE],
       [command |-> << <<"*">> >>, callback |-> "none",
        matchInterim |-> TRUE, isFuzzyMatch |-> FALSE,
        fuzzyMatchingThreshold |-> [n |-> 4, d |-> 5], bestMatchOnly |-> FALSE] >>

\* commandsRef.current: the commands option of the hook
commands == hook.commands

transcriptReducer(state, action) ==
    CASE action.type = "CLEAR_TRANSCRIPT" ->
            [state EXCEPT !.interimTranscript = <<>>, !.finalTranscript = <<>>]
      [] action.type = "APPEND_TRANSCRIPT" ->
            [state EXCEPT
                !.interimTranscript = action.payload.interimTranscript,
                !.finalTranscript =
                    concatTranscripts(<<state.finalTranscript, action.payload.finalTranscript>>)]
      [] OTHER -> state

NoPayload == [interimTranscript |-> <<>>, finalTranscript |-> <<>>]

dispatchClearTranscript(s) ==
    [s EXCEPT !.hook = transcriptReducer(@, [type |-> "CLEAR_TRANSCRIPT", payload |-> NoPayload])]

\* The resetTranscript the hook returns and hands to command callbacks
hookResetTranscript(s) == dispatchClearTranscript(resetTranscript(s))

\* callback(...args): the call is recorded in out, then the callback body runs
invokeCallback(s, c, args) ==
    LET called == Emit(s, "callback", [command |-> c] @@ args)
    IN  CASE commands[c].callback = "resetTranscript" -> hookResetTranscript(called)
          [] commands[c].callback = "throw" -> Emit(called, "thrown", "callback")
          [] OTHER -> called

\* An exception is on its way up the call stack: what follows a call is not run
Thrown(s) == \E i \in 1..Len(s.out) : s.out[i].t = "thrown"

\* exactLoop that stops at the first alternative that matches
RECURSIVE exactLoop_FirstOnly(_, _, _, _)
exactLoop_FirstOnly(s, c, a, testTranscript) ==
    IF a > Len(commands[c].command) THEN s
    ELSE LET cmd == commands[c].command[a]
             m == matchExact(cmd, testTranscript)
         IN  IF m.ok
             THEN invokeCallback(s, c, [mode |-> "exact", alternative |-> a, matched |-> cmd,
                                        parameters |-> m.caps, similarity |-> [n |-> 1, d |-> 1]])
             ELSE exactLoop_FirstOnly(s, c, a + 1, testTranscript)

\* commandsToTest.forEach(cmd => ...) of exact mode, from alternative a on
RECURSIVE exactLoop(_, _, _, _)
exactLoop(s, c, a, testTranscript) ==
    IF a > Len(commands[c].command) \/ Thrown(s) THEN s
    ELSE LET cmd == commands[c].command[a]
             m == matchExact(cmd, testTranscript)
         IN  exactLoop(
                IF m.ok
                THEN invokeCallback(s, c, [mode |-> "exact", alternative |-> a, matched |-> cmd,
                                           parameters |-> m.caps, similarity |-> [n |-> 1, d |-> 1]])
                ELSE s,
                c, a + 1, testTranscript)

\* The alternatives at or above the threshold, in order
fuzzyMatches(c, testTranscript) ==
    SelectSeq([a \in 1..Len(commands[c].command) |-> a],
              LAMBDA a : matchFuzzy(commands[c].command[a], testTranscript,
                                    commands[c].fuzzyMatchingThreshold).isMatch)

fuzzySimilarity(c, a, testTranscript) ==
    matchFuzzy(commands[c].command[a], testTranscript, commands[c].fuzzyMatchingThreshold).similarity

\* bestMatch with >= for >: of the alternatives of the highest similarity the last
RECURSIVE bestMatch_LastOfTies(_, _, _, _)
bestMatch_LastOfTies(c, matches, best, testTranscript) ==
    IF matches = <<>> THEN best
    ELSE bestMatch_LastOfTies(c, Tail(matches),
            IF FracGeq(fuzzySimilarity(c, Head(matches), testTranscript),
                       fuzzySimilarity(c, best, testTranscript))
            THEN Head(matches) ELSE best,
            testTranscript)

\* matches.reduce((best, current) => current.similarity > best.similarity ? current : best)
RECURSIVE bestMatch(_, _, _, _)
bestMatch(c, matches, best, testTranscript) ==
    IF matches = <<>> THEN best
    ELSE bestMatch(c, Tail(matches),
            IF FracGt(fuzzySimilarity(c, Head(matches), testTranscript),
                      fuzzySimilarity(c, best, testTranscript))
            THEN Head(matches) ELSE best,
            testTranscript)

fuzzyArgs(c, a, testTranscript) ==
    [mode |-> "fuzzy", alternative |-> a, matched |-> cleanCommand(commands[c].command[a]),
     parameters |-> <<testTranscript>>, similarity |-> fuzzySimilarity(c, a, testTranscript)]

RECURSIVE fuzzyLoop(_, _, _, _)
fuzzyLoop(s, c, matches, testTranscript) ==
    IF matches = <<>> \/ Thrown(s) THEN s
    ELSE fuzzyLoop(invokeCallback(s, c, fuzzyArgs(c, Head(matches), testTranscript)),
                   c, Tail(matches), testTranscript)

\* matchOneCommand without the test of the interim text
matchOneCommand_NoInterimGuard(s, c, transcript, interim, final) ==
    IF trim(transcript) = <<>> THEN s
    ELSE LET testTranscript == IF commands[c].matchInterim THEN transcript ELSE final
             matches == fuzzyMatches(c, testTranscript)
         IN  IF trim(testTranscript) = <<>> THEN s
             ELSE IF commands[c].isFuzzyMatch
             THEN IF matches = <<>> THEN s
                  ELSE IF commands[c].bestMatchOnly
                  THEN invokeCallback(s, c,
                          fuzzyArgs(c, bestMatch(c, Tail(matches), Head(matches), testTranscript),
                                    testTranscript))
                  ELSE fuzzyLoop(s, c, matches, testTranscript)
             ELSE exactLoop(s, c, 1, testTranscript)

\* The body of commandsRef.current.forEach for command c
matchOneCommand(s, c, transcript, interim, final) ==
    IF (interim # <<>> /\ ~commands[c].matchInterim) \/ trim(transcript) = <<>> THEN s
    ELSE LET testTranscript == IF commands[c].matchInterim THEN transcript ELSE final
             matches == fuzzyMatches(c, testTranscript)
         IN  IF trim(testTranscript) = <<>> THEN s
             ELSE IF commands[c].isFuzzyMatch
             THEN IF matches = <<>> THEN s
                  ELSE IF commands[c].bestMatchOnly
                  THEN invokeCallback(s, c,
                          fuzzyArgs(c, bestMatch(c, Tail(matches), Head(matches), testTranscript),
                                    testTranscript))
                  ELSE fuzzyLoop(s, c, matches, testTranscript)
             ELSE exactLoop(s, c, 1, testTranscript)

RECURSIVE matchCommandsLoop(_, _, _, _, _)
matchCommandsLoop(s, c, transcript, interim, final) ==
    IF c > Len(commands) \/ Thrown(s) THEN s
    ELSE matchCommandsLoop(matchOneCommand(s, c, transcript, interim, final),
                           c + 1, transcript, interim, final)

matchCommands(s, interim, final) ==
    matchCommandsLoop(s, 1, concatTranscripts(<<final, interim>>), interim, final)

\* handleTranscriptChange that appends whatever the transcribing option is
handleTranscriptChange_AlwaysAppend(s, newInterimTranscript, newFinalTranscript) ==
    matchCommands(
        [s EXCEPT !.hook = transcriptReducer(@,
                [type |-> "APPEND_TRANSCRIPT",
                 payload |-> [interimTranscript |-> newInterimTranscript,
                              finalTranscript |-> newFinalTranscript]])],
        newInterimTranscript, newFinalTranscript)

handleTranscriptChange(s, newInterimTranscript, newFinalTranscript) ==
    matchCommands(
        IF s.hook.transcribing
        THEN [s EXCEPT !.hook = transcriptReducer(@,
                [type |-> "APPEND_TRANSCRIPT",
                 payload |-> [interimTranscript |-> newInterimTranscript,
                              finalTranscript |-> newFinalTranscript]])]
        ELSE s,
        newInterimTranscript, newFinalTranscript)

handleClearTranscript(s) ==
    IF s.hook.clearTranscriptOnListen THEN dispatchClearTranscript(s) ELSE s

\* transcript = concatTranscripts(finalTranscript, interimTranscript) the hook returns
hookTranscript == concatTranscripts(<<hook.finalTranscript, hook.interimTranscript>>)

\* ------------------------------------------------------------------------
\* RecognitionManager: notifications
\* ------------------------------------------------------------------------

Subscribed(s) == HookId \in s.subscribers

\* this.subscribers[id] = callbacks: one bundle under id, whatever was there
subscribe(s, id) == [s EXCEPT !.subscribers = @ \cup {id}]

\* unsubscribe that leaves the bundle registered
unsubscribe_Keep(s, id) == s

\* delete this.subscribers[id]
unsubscribe(s, id) == [s EXCEPT !.subscribers = @ \ {id}]

emitListeningChange(s, l) ==
    LET n == Notify([s EXCEPT !.listening = l], "listening", l)
    IN  IF Subscribed(s) THEN [n EXCEPT !.hook.listening = l] ELSE n

emitMicrophoneAvailabilityChange(s, available) ==
    LET n == Notify([s EXCEPT !.isMicrophoneAvailable = available], "microphone", available)
    IN  IF Subscribed(s) THEN [n EXCEPT !.hook.isMicrophoneAvailable = available] ELSE n

\* The bundles are called in the order of Object.keys, the hook (key 0)
\* first: when its handler throws, the bundles after it are not called
emitTranscriptChange(s, interim, final) ==
    LET n == Notify(s, "transcript", [interimTranscript |-> interim, finalTranscript |-> final])
        handled == handleTranscriptChange(n, interim, final)
    IN  IF Subscribed(s)
        THEN IF Thrown(handled)
             THEN [handled EXCEPT !.out[Len(n.out)].to = {HookId}]
             ELSE handled
        ELSE n

emitClearTranscript(s) ==
    LET n == Notify(s, "clear", TRUE)
    IN  IF Subscribed(s) THEN handleClearTranscript(n) ELSE n

emitBrowserSupportsSpeechRecognitionChange(s, supported) ==
    Notify(s, "browserSupport", supported)

\* ------------------------------------------------------------------------
\* RecognitionManager: stopListening, abortListening, startListening and the handlers
\* ------------------------------------------------------------------------

\* The synchronous part of stopListening / abortListening: disconnect, then
\* emitListeningChange(false)
stopListeningSync(s) == emitListeningChange(disconnect(s, "STOP"), FALSE)
abortListeningSync(s) == emitListeningChange(disconnect(s, "ABORT"), FALSE)

\* "if (this.listening) await new Promise(...)": with the flag set the promise
\* waits for onStopListening (called by the end handler) and a timer is armed
\* that resolves it after 100 ms; otherwise the async function returns
\* an unconditional wait for onStopListening with no timer armed
awaitDisconnect_NoTimer(listeningNow) ==
    [wait |-> TRUE, timer |-> FALSE]

awaitDisconnect(listeningNow) ==
    IF listeningNow THEN [wait |-> TRUE, timer |-> TRUE] ELSE [wait |-> FALSE, timer |-> FALSE]

NoCall == [kind |-> "none", wasListening |-> FALSE, status |-> "none", timer |-> FALSE]

NewCall(kind, wasListening, listeningNow) ==
    [kind |-> kind, wasListening |-> wasListening,
     status |-> IF awaitDisconnect(listeningNow).wait THEN "waiting" ELSE "returning",
     timer |-> awaitDisconnect(listeningNow).timer]

NoPendingStart ==
    [active |-> FALSE, continuous |-> FALSE, language |-> <<>>,
     isContinuousChanged |-> FALSE, isLanguageChanged |-> FALSE]

\* await this.recognition.start(): a running or ending instance rejects a
\* second start with a DOMException; an idle one starts (o = "ok") or fails
\* with another error (o = "error")
startOutcome(s, o) == IF s.engine = "idle" THEN o ELSE "DOMException"

\* startListeningBody that clears the transcript whatever the continuous mode
startListeningBody_AlwaysReset(s, o) ==
    IF s.listening THEN s
    ELSE LET cleared == emitClearTranscript(resetTranscriptState(s))
             started == Emit(Emit(cleared, "primitive", "start"), "outcome", startOutcome(s, o))
         IN  CASE startOutcome(s, o) = "ok" ->
                    emitListeningChange([started EXCEPT !.engine = "running", !.listening = TRUE], TRUE)
               [] startOutcome(s, o) = "DOMException" -> started
               [] OTHER -> emitMicrophoneAvailabilityChange(started, FALSE)

\* startListeningBody that notifies the clear without resetting the transcript state
startListeningBody_NoReset(s, o) ==
    IF s.listening THEN s
    ELSE LET cleared == IF ~s.recognition.continuous
                        THEN emitClearTranscript(s)
                        ELSE s
             started == Emit(Emit(cleared, "primitive", "start"), "outcome", startOutcome(s, o))
         IN  CASE startOutcome(s, o) = "ok" ->
                    emitListeningChange([started EXCEPT !.engine = "running", !.listening = TRUE], TRUE)
               [] startOutcome(s, o) = "DOMException" -> started
               [] OTHER -> emitMicrophoneAvailabilityChange(started, FALSE)

\* startListeningBody whose catch treats a DOMException like any other error
startListeningBody_NoSwallow(s, o) ==
    IF s.listening THEN s
    ELSE LET cleared == IF ~s.recognition.continuous
                        THEN emitClearTranscript(resetTranscriptState(s))
                        ELSE s
             started == Emit(Emit(cleared, "primitive", "start"), "outcome", startOutcome(s, o))
         IN  CASE startOutcome(s, o) = "ok" ->
                    emitListeningChange([started EXCEPT !.engine = "running", !.listening = TRUE], TRUE)
               [] OTHER -> emitMicrophoneAvailabilityChange(started, FALSE)

\* startListeningBody whose catch swallows every error
startListeningBody_IgnoreFailure(s, o) ==
    IF s.listening THEN s
    ELSE LET cleared == IF ~s.recognition.continuous
                        THEN emitClearTranscript(resetTranscriptState(s))
                        ELSE s
             started == Emit(Emit(cleared, "primitive", "start"), "outcome", startOutcome(s, o))
         IN  CASE startOutcome(s, o) = "ok" ->
                    emitListeningChange([started EXCEPT !.engine = "running", !.listening = TRUE], TRUE)
               [] OTHER -> started

\* startListeningBody whose catch rethrows what is not a DOMException
startListeningBody_Rethrow(s, o) ==
    IF s.listening THEN s
    ELSE LET cleared == IF ~s.recognition.continuous
                        THEN emitClearTranscript(resetTranscriptState(s))
                        ELSE s
             started == Emit(Emit(cleared, "primitive", "start"), "outcome", startOutcome(s, o))
         IN  CASE startOutcome(s, o) = "ok" ->
                    emitListeningChange([started EXCEPT !.engine = "running", !.listening = TRUE], TRUE)
               [] startOutcome(s, o) = "DOMException" -> started
               [] OTHER -> Emit(started, "thrown", "error")

\* startListening from "if (!this.listening)" on
startListeningBody(s, o) ==
    IF s.listening THEN s
    ELSE LET cleared == IF ~s.recognition.continuous
                        THEN emitClearTranscript(resetTranscriptState(s))
                        ELSE s
             started == Emit(Emit(cleared, "primitive", "start"), "outcome", startOutcome(s, o))
         IN  CASE startOutcome(s, o) = "ok" ->
                    emitListeningChange([started EXCEPT !.engine = "running", !.listening = TRUE], TRUE)
               [] startOutcome(s, o) = "DOMException" -> started
               [] OTHER -> emitMicrophoneAvailabilityChange(started, FALSE)

\* startListening after "await this.stopListening()": the reconfiguration, then the body
startListeningRest(s, continuous, language, isContinuousChanged, isLanguageChanged, o) ==
    startListeningBody(
        [s EXCEPT !.recognition.continuous = IF isContinuousChanged THEN continuous ELSE @,
                  !.recognition.lang = IF isLanguageChanged THEN language ELSE @],
        o)

\* startListening without the test of this.recognition
startListeningCall_NoGuard(s, continuous, language, o) ==
    LET isContinuousChanged == continuous # s.recognition.continuous
        isLanguageChanged == language # <<>> /\ language # s.recognition.lang
        stopped == stopListeningSync(s)
    IN  IF (isContinuousChanged \/ isLanguageChanged) /\ s.listening
        THEN IF awaitDisconnect(stopped.listening).wait
             THEN [stopped EXCEPT
                     !.stopCall = NewCall("internal", TRUE, stopped.listening),
                     !.pendingStart = [active |-> TRUE, continuous |-> continuous,
                                       language |-> language,
                                       isContinuousChanged |-> isContinuousChanged,
                                       isLanguageChanged |-> isLanguageChanged]]
             ELSE startListeningRest(stopped, continuous, language,
                                     isContinuousChanged, isLanguageChanged, o)
        ELSE startListeningRest(s, continuous, language,
                                isContinuousChanged, isLanguageChanged, o)

\* The body of startListening; language = <<>> stands for an absent (or empty)
\* language option
startListeningCall(s, continuous, language, o) ==
    IF ~s.recognition.present THEN s
    ELSE LET isContinuousChanged == continuous # s.recognition.continuous
             isLanguageChanged == language # <<>> /\ language # s.recognition.lang
             stopped == stopListeningSync(s)
         IN  IF (isContinuousChanged \/ isLanguageChanged) /\ s.listening
             THEN IF awaitDisconnect(stopped.listening).wait
                  THEN [stopped EXCEPT
                          !.stopCall = NewCall("internal", TRUE, stopped.listening),
                          !.pendingStart = [active |-> TRUE, continuous |-> continuous,
                                            language |-> language,
                                            isContinuousChanged |-> isContinuousChanged,
                                            isLanguageChanged |-> isLanguageChanged]]
                  ELSE startListeningRest(stopped, continuous, language,
                                          isContinuousChanged, isLanguageChanged, o)
             ELSE startListeningRest(s, continuous, language,
                                     isContinuousChanged, isLanguageChanged, o)

\* The promise of the async function: rejected if the body let an exception
\* escape, resolved when it returns; pending while it awaits stopListening
settleStart(wasListening, r) ==
    IF r.pendingStart.active THEN r
    ELSE IF \E i \in 1..Len(r.out) : r.out[i].t = "thrown"
    THEN Emit(r, "rejected", [kind |-> "start", wasListening |-> wasListening, by |-> "throw"])
    ELSE Emit(r, "resolved", [kind |-> "start", wasListening |-> wasListening, by |-> "return"])

startListening(s, continuous, language, o) ==
    settleStart(s.listening, startListeningCall(s, continuous, language, o))

\* The handlers become no-ops; a listening session is stopped (the promise of
\* that stopListening is dropped)
disableRecognition(s) ==
    IF s.recognition.present
    THEN LET detached == [s EXCEPT !.recognition.attached = FALSE]
         IN  IF s.listening THEN stopListeningSync(detached) ELSE detached
    ELSE s

\* onError that marks the microphone unavailable and leaves the recogniser enabled
onError_NoDisable(s, error) ==
    IF error = "not-allowed"
    THEN emitMicrophoneAvailabilityChange(s, FALSE)
    ELSE s

onError(s, error) ==
    IF error = "not-allowed"
    THEN disableRecognition(emitMicrophoneAvailabilityChange(s, FALSE))
    ELSE s

\* this.onStopListening(): resolves the promise of a waiting stopListening / abortListening
onStopListening(s) ==
    IF s.stopCall.status = "waiting"
    THEN Emit([s EXCEPT !.stopCall = NoCall], "resolved",
              [kind |-> s.stopCall.kind, wasListening |-> s.stopCall.wasListening, by |-> "end"])
    ELSE s

onRecognitionDisconnect(s, o) ==
    LET s1 == [onStopListening(s) EXCEPT !.listening = FALSE]
        s2 == IF s1.pauseAfterDisconnect THEN emitListeningChange(s1, FALSE)
              ELSE IF s1.recognition.present
              THEN IF s1.recognition.continuous
                   THEN startListening(s1, s1.recognition.continuous, <<>>, o)
                   ELSE emitListeningChange(s1, FALSE)
              ELSE s1
    IN  [s2 EXCEPT !.pauseAfterDisconnect = FALSE]

\* isFinalOnly without the test of the number of results
isFinalOnly_AnyLength(results, interim) ==
    results # <<>> /\ results[1].isFinal /\ interim = <<>>

\* results.length === 1 && results[0].isFinal && !this.interimTranscript
isFinalOnly(results, interim) ==
    Len(results) = 1 /\ results[1].isFinal /\ interim = <<>>

\* updateTranscript that suppresses every single final result without interim text
updateTranscript_CurrentOnly(s, results, resultIndex) ==
    LET parsed == parseResultsToTranscript(results, resultIndex)
        s1 == [s EXCEPT
                !.interimTranscript = parsed.interimTranscript,
                !.finalTranscriptState =
                    IF parsed.finalTranscript # <<>>
                    THEN updateFinalTranscript(@, parsed.finalTranscript) ELSE @]
        s2 == [s1 EXCEPT
                !.previousResultWasFinalOnly = isFinalOnly(results, s1.interimTranscript)]
    IN  IF ~isFinalOnly(results, s1.interimTranscript)
        THEN emitTranscriptChange(s2, s2.interimTranscript, s2.finalTranscriptState)
        ELSE s2

\* updateTranscript that handles a batch only while the manager is listening
updateTranscript_OnlyWhileListening(s, results, resultIndex) ==
    LET parsed == parseResultsToTranscript(results, resultIndex)
        s1 == [s EXCEPT
                !.interimTranscript = parsed.interimTranscript,
                !.finalTranscriptState =
                    IF parsed.finalTranscript # <<>>
                    THEN updateFinalTranscript(@, parsed.finalTranscript) ELSE @]
        s2 == [s1 EXCEPT
                !.previousResultWasFinalOnly = isFinalOnly(results, s1.interimTranscript)]
    IN  IF ~s.listening THEN s
        ELSE IF ~(s.previousResultWasFinalOnly /\ isFinalOnly(results, s1.interimTranscript))
        THEN emitTranscriptChange(s2, s2.interimTranscript, s2.finalTranscriptState)
        ELSE s2

updateTranscript(s, results, resultIndex) ==
    LET parsed == parseResultsToTranscript(results, resultIndex)
        s1 == [s EXCEPT
                !.interimTranscript = parsed.interimTranscript,
                !.finalTranscriptState =
                    IF parsed.finalTranscript # <<>>
                    THEN updateFinalTranscript(@, parsed.finalTranscript) ELSE @]
        isDuplicateResult ==
            s.previousResultWasFinalOnly /\ isFinalOnly(results, s1.interimTranscript)
        s2 == [s1 EXCEPT
                !.previousResultWasFinalOnly = isFinalOnly(results, s1.interimTranscript)]
    IN  IF ~isDuplicateResult
        THEN emitTranscriptChange(s2, s2.interimTranscript, s2.finalTranscriptState)
        ELSE s2

\* setSpeechRecognition that announces the microphone as available again
\* for the new instance
setSpeechRecognition_MicrophoneBack(s, supported) ==
    emitBrowserSupportsSpeechRecognitionChange(
        IF supported
        THEN emitMicrophoneAvailabilityChange(
                 [disableRecognition(s) EXCEPT !.recognition = NewRecognition, !.engine = "idle"],
                 TRUE)
        ELSE s,
        supported)

\* supported = the constructor is given and is the native one or polyfills are
\* supported (browserSupportsRecogniser); the new instance has not been started
setSpeechRecognition(s, supported) ==
    emitBrowserSupportsSpeechRecognitionChange(
        IF supported
        THEN [disableRecognition(s) EXCEPT !.recognition = NewRecognition, !.engine = "idle"]
        ELSE s,
        supported)

\* ------------------------------------------------------------------------
\* Bounds and inputs
\* ------------------------------------------------------------------------

\* Result batches are delivered while the final transcript has at most
\* MaxWords tokens and the hook's at most MaxHookWords
MaxWords == 2
MaxHookWords == 4

Final(t) == [isFinal |-> TRUE, transcript |-> t]
Interim(t) == [isFinal |-> FALSE, transcript |-> t]

\* The SpeechRecognitionEvents the recogniser delivers: results and resultIndex
Batches ==
    { [results |-> <<Final(<<"a">>)>>, resultIndex |-> 0],
      [results |-> <<Final(<<"A", ",", " ", "b">>)>>, resultIndex |-> 0],
      [results |-> <<Final(<<"c", "l", "e", "a", "r">>)>>, resultIndex |-> 0],
      [results |-> <<Interim(<<"b">>)>>, resultIndex |-> 0],
      [results |-> <<Final(<<"a", " ">>), Interim(<<"b">>)>>, resultIndex |-> 0],
      [results |-> <<Final(<<"a">>), Final(<<"b">>)>>, resultIndex |-> 1] }

\* The batches of the specifications that are not about the transcript text
SessionBatches ==
    { [results |-> <<Final(<<"a">>)>>, resultIndex |-> 0],
      [results |-> <<Interim(<<"b">>)>>, resultIndex |-> 0] }

HookBatches ==
    { [results |-> <<Final(<<"a">>)>>, resultIndex |-> 0],
      [results |-> <<Final(<<"c", "l", "e", "a", "r">>)>>, resultIndex |-> 0],
      [results |-> <<Interim(<<"b">>)>>, resultIndex |-> 0],
      [results |-> <<Interim(<<" ">>)>>, resultIndex |-> 0] }

\* The language options of startListening (<<>> = none) and the error codes of error events
Languages == {<<>>, <<"e", "n">>}
Errors == {"not-allowed", "no-speech"}

\* ------------------------------------------------------------------------
\* History
\* ------------------------------------------------------------------------

Has(o, t, v) == \E i \in 1..Len(o) : o[i].t = t /\ o[i].v = v
HasT(o, t) == \E i \in 1..Len(o) : o[i].t = t
Count(o, t) == Cardinality({i \in 1..Len(o) : o[i].t = t})
Notified(o, t) == \E i \in 1..Len(o) : o[i].t = t /\ o[i].to # {}
NotifiedV(o, t, v) == \E i \in 1..Len(o) : o[i].t = t /\ o[i].v = v /\ o[i].to # {}
\* an entry (t, v) comes before an entry (u, w)
Before(o, t, v, u, w) ==
    \E i, j \in 1..Len(o) : i < j /\ o[i].t = t /\ o[i].v = v /\ o[j].t = u /\ o[j].v = w

NoBatch == [finalOnly |-> FALSE, notified |-> FALSE]

\* track names the part of the history a specification records: "fold" (fold,
\* lastInterim, lastFinal, batchSinceClear), "pair" (prev .. lastText), "turn" (turnReq, sinceStop)
InitHist(track) ==
    [track |-> track,
     fold |-> <<>>,             \* concatTranscripts folded over the final texts of the batches since the last clear
     lastInterim |-> <<>>,      \* the interim and final text of the latest batch
     lastFinal |-> <<>>,
     batchSinceClear |-> FALSE,
     prev |-> NoBatch,          \* the batch before the latest, the latest, and whether they
     cur |-> NoBatch,           \* have the same content; beforeFinalOnly: the batch before prev
     same |-> FALSE,            \* was a single final result without interim text
     beforeFinalOnly |-> FALSE,
     lastText |-> <<>>,         \* the transcript of the latest batch if it was a single final result
     turnReq |-> "none",        \* the stop / abort / reset issued in the current turn of the instance
     sinceStop |-> FALSE,       \* stopListening was called while listening, and startListening not since
     startFailed |-> FALSE,     \* a start failed with another error than a DOMException, and the
                                \* instance has not been replaced since
     notifiedListening |-> FALSE, \* the listening value the subscribers were notified of last
     microphoneLost |-> FALSE]  \* microphoneAvailable was false after an earlier step

\* The value of the last notification t in o that reached a subscriber, or prev
LastNotified(o, t, prev) ==
    LET is == {i \in 1..Len(o) : o[i].t = t /\ o[i].to # {}}
    IN  IF is = {} THEN prev
        ELSE o[CHOOSE i \in is : \A j \in is : j <= i].v

\* What every step does to the history: a clear empties the fold; the end of
\* the turn, a new instance and a successful start leave no request, a stop or
\* abort primitive is the request of the turn; startListening ends sinceStop
HistAfter(h, o, op, listeningBefore, listeningAfter) ==
    CASE h.track = "fold" ->
            [h EXCEPT !.fold = IF HasT(o, "clear") THEN <<>> ELSE @,
                      !.batchSinceClear = IF HasT(o, "clear") THEN FALSE ELSE @]
      [] h.track = "turn" ->
            [h EXCEPT
                !.turnReq =
                    IF op = "end" \/ Has(o, "browserSupport", TRUE) THEN "none"
                    ELSE IF Has(o, "primitive", "abort")
                    THEN (IF op = "abortListening" THEN "abort" ELSE "reset")
                    ELSE IF Has(o, "primitive", "stop") THEN "stop"
                    ELSE IF Has(o, "primitive", "start") /\ listeningAfter THEN "none"
                    ELSE @,
                !.sinceStop = IF op = "startListening" THEN FALSE
                              ELSE IF op = "stopListening" /\ listeningBefore THEN TRUE
                              ELSE @,
                !.startFailed = IF Has(o, "browserSupport", TRUE) THEN FALSE
                                ELSE IF Has(o, "outcome", "error") THEN TRUE
                                ELSE @,
                !.notifiedListening = LastNotified(o, "listening", @),
                !.microphoneLost = @ \/ ~isMicrophoneAvailable]
      [] OTHER -> h

\* The batch consists of exactly one result, marked final, with empty interim text
SingleFinalOnly(batch) ==
    /\ Len(batch.results) = 1
    /\ batch.results[1].isFinal
    /\ parseResultsToTranscript(batch.results, batch.resultIndex).interimTranscript = <<>>

\* The history after a result batch
HistAfterBatch(h, o, batch) ==
    LET parsed == parseResultsToTranscript(batch.results, batch.resultIndex)
    IN  CASE h.track = "fold" ->
                [h EXCEPT !.fold = concatTranscripts(<<@, parsed.finalTranscript>>),
                          !.lastInterim = parsed.interimTranscript,
                          !.lastFinal = parsed.finalTranscript,
                          !.batchSinceClear = TRUE]
          [] h.track = "pair" ->
                [h EXCEPT
                    !.beforeFinalOnly = h.prev.finalOnly,
                    !.prev = h.cur,
                    !.cur = [finalOnly |-> SingleFinalOnly(batch),
                             notified |-> Notified(o, "transcript")],
                    !.same = SingleFinalOnly(batch) /\ h.cur.finalOnly
                             /\ h.lastText = batch.results[1].transcript,
                    !.lastText = IF SingleFinalOnly(batch) THEN batch.results[1].transcript
                                 ELSE <<>>]
          [] OTHER -> h

\* ------------------------------------------------------------------------
\* Specification
\* ------------------------------------------------------------------------

Step(op, continuous) ==
    [op |-> op, continuous |-> continuous,
     wasListening |-> listening /\ op \in {"startListening", "stopListening", "abortListening",
                                           "resetTranscript"}]

Apply(r, op, continuous, h) ==
    /\ recognition' = r.recognition
    /\ engine' = r.engine
    /\ pauseAfterDisconnect' = r.pauseAfterDisconnect
    /\ interimTranscript' = r.interimTranscript
    /\ finalTranscriptState' = r.finalTranscriptState
    /\ listening' = r.listening
    /\ isMicrophoneAvailable' = r.isMicrophoneAvailable
    /\ previousResultWasFinalOnly' = r.previousResultWasFinalOnly
    /\ subscribers' = r.subscribers
    /\ hook' = r.hook
    /\ stopCall' = r.stopCall
    /\ pendingStart' = r.pendingStart
    /\ out' = r.out
    /\ step' = Step(op, continuous)
    /\ hist' = HistAfter(h, r.out, op, listening, r.listening)

\* The state after the module is loaded and the hook (when it is used) has
\* mounted: the manager is constructed with the native implementation if
\* there is one; subs are the registered bundles, "1" being a bundle of plain callbacks
Mounted(recognitions, subs, cmds, transcribing) ==
    /\ recognition \in recognitions
    /\ engine = "idle"
    /\ pauseAfterDisconnect = FALSE
    /\ interimTranscript = <<>>
    /\ finalTranscriptState = <<>>
    /\ listening = FALSE
    /\ isMicrophoneAvailable = TRUE
    /\ previousResultWasFinalOnly = FALSE
    /\ subscribers = subs
    /\ hook = [transcribing |-> transcribing, clearTranscriptOnListen |-> TRUE,
               interimTranscript |-> <<>>, finalTranscript |-> <<>>,
               listening |-> FALSE, isMicrophoneAvailable |-> TRUE, commands |-> cmds]
    /\ stopCall = NoCall
    /\ pendingStart = NoPendingStart
    /\ out = <<>>
    /\ step = [op |-> "init", continuous |-> FALSE, wasListening |-> FALSE]

ConstructedWith(recognitions, subs, cmds) == Mounted(recognitions, subs, cmds, TRUE)

Constructed(recognitions, subs) == ConstructedWith(recognitions, subs, AppCommands)

InitWith(recognitions, subs, track) ==
    /\ Constructed(recognitions, subs)
    /\ hist = InitHist(track)

\* No continuation of an async function is due: handlers and calls run only then
Quiescent == stopCall.status # "returning"

\* The caller serialises the control calls: none is made while one is pending
ApiReady == stopCall.status \notin {"returning", "waiting"}

\* SpeechRecognition.startListening(options)
StartListening(continuous, language, o) ==
    /\ ApiReady
    /\ Apply(startListening(Cur, continuous, language, o), "startListening", continuous, hist)

\* SpeechRecognition.stopListening()
StopListening ==
    /\ ApiReady
    /\ LET r == stopListeningSync(Cur)
       IN  Apply([r EXCEPT !.stopCall = NewCall("stop", listening, r.listening)],
                 "stopListening", FALSE, hist)

\* SpeechRecognition.abortListening()
AbortListening ==
    /\ ApiReady
    /\ LET r == abortListeningSync(Cur)
       IN  Apply([r EXCEPT !.stopCall = NewCall("abort", listening, r.listening)],
                 "abortListening", FALSE, hist)

\* The async function returns, or the 100 ms timer of the awaited promise
\* fires: the promise of the call resolves; a startListening suspended on it continues
Settle(o) ==
    /\ stopCall.status = "returning" \/ (stopCall.status = "waiting" /\ stopCall.timer)
    /\ LET r == Emit([Cur EXCEPT !.stopCall = NoCall, !.pendingStart = NoPendingStart],
                     "resolved",
                     [kind |-> stopCall.kind, wasListening |-> stopCall.wasListening,
                      by |-> IF stopCall.status = "returning" THEN "return" ELSE "timeout"])
       IN  Apply(IF pendingStart.active
                 THEN settleStart(TRUE,
                        startListeningRest(r, pendingStart.continuous, pendingStart.language,
                            pendingStart.isContinuousChanged, pendingStart.isLanguageChanged, o))
                 ELSE r,
                 "settle", FALSE, hist)

\* The application calls the resetTranscript the hook returned
ResetTranscript ==
    /\ ApiReady
    /\ Apply(hookResetTranscript(Cur), "resetTranscript", FALSE, hist)

\* SpeechRecognition.applyPolyfill / removePolyfill
SetSpeechRecognition(supported) ==
    /\ ApiReady
    /\ Apply(setSpeechRecognition(Cur, supported), "setSpeechRecognition", FALSE, hist)

\* The instance fires a result event: the handler runs if attached
OnResult(batch) ==
    /\ Quiescent
    /\ recognition.present
    /\ engine \in {"running", "stopping"}
    /\ LET r == updateTranscript(Cur, batch.results, batch.resultIndex)
       IN  IF recognition.attached
           THEN /\ Len(Tokens(r.finalTranscriptState)) <= MaxWords
                /\ Len(Tokens(r.hook.finalTranscript)) <= MaxHookWords
                /\ Apply(r, "result", FALSE, HistAfterBatch(hist, r.out, batch))
           ELSE Apply(Cur, "result", FALSE, hist)

\* The instance fires its end event: the turn is over; the handler runs if attached
OnEnd(o) ==
    /\ Quiescent
    /\ recognition.present
    /\ engine # "idle"
    /\ LET ended == [Cur EXCEPT !.engine = "idle"]
           r == onRecognitionDisconnect(ended, o)
       IN  Apply(IF ~recognition.attached THEN ended
                 ELSE IF stopCall.status = "waiting" /\ r.pendingStart.active
                 THEN settleStart(TRUE,
                        startListeningRest([r EXCEPT !.pendingStart = NoPendingStart],
                            pendingStart.continuous, pendingStart.language,
                            pendingStart.isContinuousChanged, pendingStart.isLanguageChanged, o))
                 ELSE r,
                 "end", FALSE, hist)

\* The instance fires an error event: the turn is ending; the handler runs if attached
OnError(error) ==
    /\ Quiescent
    /\ recognition.present
    /\ engine \in {"running", "stopping"}
    /\ LET failing == Emit([Cur EXCEPT !.engine = "aborting"], "error", error)
       IN  Apply(IF recognition.attached THEN onError(failing, error) ELSE failing,
                 "error", FALSE, hist)

\* The control calls and the events of the session
Session(languages) ==
    \/ \E continuous \in BOOLEAN, language \in languages, o \in {"ok", "error"} :
            StartListening(continuous, language, o)
    \/ StopListening
    \/ AbortListening
    \/ \E o \in {"ok", "error"} : Settle(o)
    \/ ResetTranscript
    \/ \E o \in {"ok", "error"} : OnEnd(o)
    \/ \E error \in Errors : OnError(error)

\* The session: every control call and event, with two result batches
Init == InitWith({NewRecognition, NoRecognition}, {"1"}, "turn")

Next ==
    \/ Session(Languages)
    \/ \E supported \in BOOLEAN : SetSpeechRecognition(supported)
    \/ \E batch \in SessionBatches : OnResult(batch)

Spec == Init /\ [][Next]_vars

\* The event loop runs the continuations and timers that are due
FairSpec == Spec /\ WF_vars(\E o \in {"ok", "error"} : Settle(o))

\* The transcript: every result batch, on one instance
FoldInit == InitWith({NewRecognition}, {"1"}, "fold")
PairInit == InitWith({NewRecognition}, {"1"}, "pair")

TranscriptNext ==
    \/ Session({<<>>})
    \/ \E batch \in Batches : OnResult(batch)

FoldSpec == FoldInit /\ [][TranscriptNext]_vars
PairSpec == PairInit /\ [][TranscriptNext]_vars

\* The hook and its commands
HookInit == InitWith({NewRecognition}, {HookId}, "fold")

HookNext ==
    \/ Session({<<>>})
    \/ \E batch \in HookBatches : OnResult(batch)

HookSpec == HookInit /\ [][HookNext]_vars

\* The hook with a command whose callback throws, and a bundle of plain callbacks
FailingInit ==
    /\ ConstructedWith({NewRecognition}, {HookId, "1"}, FailingCommands)
    /\ hist = InitHist("fold")

FailingSpec == FailingInit /\ [][HookNext]_vars

\* The session with bundles that are registered and removed between the
\* events; hist.registered is the set of ids subscribed and not unsubscribed since
SubscriberIds == {HookId, "1"}

Subscribe(id) ==
    /\ Quiescent
    /\ Apply(subscribe(Cur, id), "subscribe", FALSE,
             [hist EXCEPT !.registered = @ \cup {id}])

Unsubscribe(id) ==
    /\ Quiescent
    /\ Apply(unsubscribe(Cur, id), "unsubscribe", FALSE,
             [hist EXCEPT !.registered = @ \ {id}])

SubscribeInit ==
    /\ Constructed({NewRecognition}, SubscriberIds)
    /\ hist = [registered |-> SubscriberIds] @@ InitHist("subscribers")

SubscribeNext ==
    \/ Session({<<>>})
    \/ \E batch \in SessionBatches : OnResult(batch)
    \/ \E id \in SubscriberIds : Subscribe(id)
    \/ \E id \in SubscriberIds : Unsubscribe(id)

SubscribeSpec == SubscribeInit /\ [][SubscribeNext]_vars

\* The hook with the option transcribing: false
NotTranscribingInit ==
    /\ Mounted({NewRecognition}, {HookId}, AppCommands, FALSE)
    /\ hist = InitHist("fold")

NotTranscribingSpec == NotTranscribingInit /\ [][HookNext]_vars

\* ------------------------------------------------------------------------
\* Specifications of the utilities: the input is drawn in the initial state
\* and one step applies the function; hist holds the input and the result
\* ------------------------------------------------------------------------

\* The strings over alphabet of at most n characters
Strings(alphabet, n) == UNION {[1..k -> alphabet] : k \in 0..n}

\* A step that applies a function of the utilities: the program state is left alone
Call(op, h) ==
    /\ step' = [step EXCEPT !.op = op]
    /\ hist' = h
    /\ UNCHANGED <<recognition, engine, pauseAfterDisconnect, interimTranscript,
                   finalTranscriptState, listening, isMicrophoneAvailable,
                   previousResultWasFinalOnly, subscribers, hook, stopCall, pendingStart, out>>

Pure(op, h) == step.op = "init" /\ Call(op, h)

\* A step that runs a function of the hook on the program state
Run(r, op) ==
    /\ step.op = "init"
    /\ recognition' = r.recognition
    /\ engine' = r.engine
    /\ pauseAfterDisconnect' = r.pauseAfterDisconnect
    /\ interimTranscript' = r.interimTranscript
    /\ finalTranscriptState' = r.finalTranscriptState
    /\ listening' = r.listening
    /\ isMicrophoneAvailable' = r.isMicrophoneAvailable
    /\ previousResultWasFinalOnly' = r.previousResultWasFinalOnly
    /\ subscribers' = r.subscribers
    /\ hook' = r.hook
    /\ stopCall' = r.stopCall
    /\ pendingStart' = r.pendingStart
    /\ out' = r.out
    /\ step' = [step EXCEPT !.op = op]
    /\ hist' = hist

MaxTranscriptLen == 4

MatchAlphabet == {"a", "A", "b", " "}

IAmName == <<"I", " ", "a", "m", " ", ":", "n", "a", "m", "e">>
IAmJohn == <<"I", " ", "a", "m", " ", "J", "o", "h", "n">>
IAmMarySmith == <<"I", " ", "a", "m", " ", "M", "a", "r", "y", " ", "S", "m", "i", "t", "h">>

\* The command arguments of matchCommand: a literal, a list of literals, two named parameters
MatchCommandLists ==
    { << <<"a", "b">> >>,
      << <<"b">>, <<"a", "b">> >>,
      << <<"a", " ", ":", "x">> >>,
      << IAmName >> }

MatchTranscripts ==
    Strings(MatchAlphabet, MaxTranscriptLen)
        \cup {IAmJohn, IAmMarySmith, toLowerCase(IAmJohn), <<" ">> \o IAmJohn, IAmJohn \o <<" ">>,
              <<"c", "l", "e", "a", "r">>, <<"C", "l", "e", "a", "r">>,
              <<"c", "l", "e", "a", "r", " ">>}

MatchInit ==
    /\ Constructed({NewRecognition}, {HookId})
    /\ hist \in {[track |-> "match", x |-> t, command |-> <<>>, isFuzzyMatch |-> FALSE,
                   r |-> NoMatchResult] : t \in MatchTranscripts}

\* matchCommand(command, hist.x, isFuzzyMatch) with the default threshold 0.8
MatchCommand(cmds, isFuzzyMatch) ==
    Pure("matchCommand",
         [hist EXCEPT !.command = cmds, !.isFuzzyMatch = isFuzzyMatch,
                      !.r = matchCommand(cmds, hist.x, isFuzzyMatch, [n |-> 4, d |-> 5])])

\* matchCommands('', hist.x) of the hook: the commands of the hook tested against hist.x
MatchCommands == Run(matchCommands(Cur, <<>>, hist.x), "matchCommands")

MatchNext ==
    \/ \E cmds \in MatchCommandLists, isFuzzyMatch \in BOOLEAN : MatchCommand(cmds, isFuzzyMatch)
    \/ MatchCommands

MatchSpec == MatchInit /\ [][MatchNext]_vars

\* removeDuplicateWords, applied to the input and then to its own result:
\* hist.r is the result of the latest call, hist.arg its argument
MaxInputLen == 5

WordsAlphabet == {"a", "A", "b", ",", " "}

WordsInit ==
    /\ Constructed({NewRecognition}, {HookId})
    /\ hist \in {[track |-> "words", x |-> t, arg |-> <<>>, r |-> <<>>, calls |-> 0] :
                    t \in Strings(WordsAlphabet, MaxInputLen)}

RemoveDuplicateWords ==
    /\ hist.calls < 2
    /\ LET arg == IF hist.calls = 0 THEN hist.x ELSE hist.r
       IN  Call("removeDuplicateWords",
                [hist EXCEPT !.arg = arg, !.r = removeDuplicateWords(arg), !.calls = @ + 1])

WordsSpec == WordsInit /\ [][RemoveDuplicateWords]_vars

\* concatTranscripts(x, y) and concatTranscripts(x, '', y)
MaxFragmentLen == 3

FragmentAlphabet == {"a", "A", "b", " "}

ConcatInit ==
    /\ Constructed({NewRecognition}, {HookId})
    /\ hist \in {[track |-> "concat", x |-> t, y |-> u, parts |-> <<>>, r |-> <<>>] :
                    t, u \in Strings(FragmentAlphabet, MaxFragmentLen)}

ConcatTranscripts(transcriptParts) ==
    Pure("concatTranscripts",
         [hist EXCEPT !.parts = transcriptParts, !.r = concatTranscripts(transcriptParts)])

ConcatNext ==
    \/ ConcatTranscripts(<<hist.x, hist.y>>)
    \/ ConcatTranscripts(<<hist.x, <<>>, hist.y>>)

ConcatSpec == ConcatInit /\ [][ConcatNext]_vars

\* compareTwoStringsUsingDiceCoefficient(x, y) and, with the arguments swapped, (y, x)
MaxStringLen == 4

DiceAlphabet == {"a", "b", " "}

DiceInit ==
    /\ Constructed({NewRecognition}, {HookId})
    /\ hist \in {[track |-> "dice", x |-> t, y |-> u,
                   r |-> [n |-> 0, d |-> 1], swapped |-> [n |-> 0, d |-> 1]] :
                    t, u \in Strings(DiceAlphabet, MaxStringLen)}

CompareTwoStrings ==
    Pure("compareTwoStringsUsingDiceCoefficient",
         [hist EXCEPT !.r = compareTwoStringsUsingDiceCoefficient(hist.x, hist.y),
                      !.swapped = compareTwoStringsUsingDiceCoefficient(hist.y, hist.x)])

DiceSpec == DiceInit /\ [][CompareTwoStrings]_vars

\* parseResultsToTranscript(results, resultIndex) of a result list of at most
\* MaxResults results, each with one of the transcripts ResultTexts
MaxResults == 2

ResultTexts ==
    { <<"H", "e", "l", "l", "o", " ">>, <<"w", "o", "r", "l", "d">>,
      <<"a">>, <<" ", "b">>, <<"a", " ", "b">> }

ResultLists ==
    UNION {[1..k -> {[isFinal |-> f, transcript |-> t] : f \in BOOLEAN, t \in ResultTexts}] :
                k \in 0..MaxResults}

ParseInit ==
    /\ Constructed({NewRecognition}, {HookId})
    /\ hist \in {[track |-> "parse", results |-> rs, resultIndex |-> i,
                   r |-> [interimTranscript |-> <<>>, finalTranscript |-> <<>>]] :
                    rs \in ResultLists, i \in 0..MaxResults}
    /\ hist.resultIndex <= Len(hist.results)

ParseResultsToTranscript ==
    Pure("parseResultsToTranscript",
         [hist EXCEPT !.r = parseResultsToTranscript(hist.results, hist.resultIndex)])

ParseSpec == ParseInit /\ [][ParseResultsToTranscript]_vars

\* ------------------------------------------------------------------------
\* Properties
\* ------------------------------------------------------------------------

IsPrefix(a, b) == Len(a) <= Len(b) /\ SubSeq(b, 1, Len(a)) = a

Clear == <<"c", "l", "e", "a", "r">>

\* The calls of the callback of command c, in order
CallsOf(o, c) == SelectSeq(o, LAMBDA e : e.t = "callback" /\ e.v.command = c)

\* C1: the final transcript is the left fold of concatTranscripts over the
\* final texts of the batches handled since the last clear, and once a batch
\* has been handled since then the interim transcript is the interim text of
\* the latest batch (FoldSpec)
C1_FinalIsFoldOfBatches ==
    /\ finalTranscriptState = hist.fold
    /\ hist.batchSinceClear => interimTranscript = hist.lastInterim

\* A second batch was appended to a non-empty final transcript, with interim text
C1_Witness ==
    /\ step.op = "result"
    /\ hist.batchSinceClear
    /\ Len(Tokens(finalTranscriptState)) = 2
    /\ hist.lastFinal # <<>> /\ hist.lastFinal # finalTranscriptState
    /\ interimTranscript # <<>>

\* C2: a result batch, stopListening, abortListening, an end event, an error
\* event and a continuous-mode startListening leave the tokens of the final
\* transcript as a prefix of its tokens after the step (FoldSpec)
C2_FinalNeverShrinks ==
    [][(\/ step'.op \in {"result", "stopListening", "abortListening", "end", "error"}
        \/ (step'.op = "startListening" /\ step'.continuous))
       => IsPrefix(Tokens(finalTranscriptState), Tokens(finalTranscriptState'))]_vars

\* A continuous-mode startListening that started a turn and kept two tokens of final text
C2_Witness ==
    /\ step.op = "startListening" /\ step.continuous /\ ~step.wasListening
    /\ listening
    /\ Len(Tokens(finalTranscriptState)) = 2

\* The original statement of C3: of two consecutive batches that each consist
\* of one final result without interim text and have the same content, exactly
\* one is followed by a transcript notification (PairSpec)
C3_ExactlyOneForThePair ==
    (hist.prev.finalOnly /\ hist.cur.finalOnly /\ hist.same)
        => (hist.prev.notified # hist.cur.notified)

\* C3: of two consecutive batches that each consist of one final result
\* without interim text and have the same content, the second is never
\* followed by a transcript notification, and the first is followed by one
\* exactly when the batch before the pair was not itself a single final
\* result without interim text (PairSpec)
C3_SecondOfThePairSuppressed ==
    (hist.prev.finalOnly /\ hist.cur.finalOnly /\ hist.same)
        => (~hist.cur.notified /\ (hist.prev.notified <=> ~hist.beforeFinalOnly))

\* A pair of identical single final batches with one notification, for the first
C3_Witness ==
    /\ step.op = "result"
    /\ hist.prev.finalOnly /\ hist.cur.finalOnly /\ hist.same
    /\ hist.prev.notified /\ ~hist.cur.notified

\* C4: stopListening called while listening leaves listening false and
\* notifies false; from then until startListening is called the manager is
\* not listening and no end event invokes start, whatever the continuous mode
C4_StopPausesUntilStart ==
    /\ (step.op = "stopListening" /\ step.wasListening)
            => (~listening /\ NotifiedV(out, "listening", FALSE))
    /\ hist.sinceStop => ~listening
    /\ (hist.sinceStop /\ step.op = "end") => ~Has(out, "primitive", "start")

\* The end event of a continuous turn that stopListening stopped: the handler
\* ran and notified false instead of restarting
C4_Witness ==
    /\ step.op = "end"
    /\ hist.sinceStop
    /\ recognition.attached /\ recognition.continuous
    /\ NotifiedV(out, "listening", FALSE)
    /\ ~listening

\* C5: the handler of an end event of a turn for which no stop or abort was
\* requested restarts recognition in continuous mode (start is invoked, false
\* is not notified, and listening is true if the start succeeds) and in
\* non-continuous mode leaves listening false and notifies false
C5_NaturalEndRestartsInContinuousMode ==
    [][(step'.op = "end" /\ recognition.attached /\ hist.turnReq \notin {"stop", "abort"})
       => IF recognition.continuous
          THEN /\ Has(out', "primitive", "start")
               /\ ~NotifiedV(out', "listening", FALSE)
               /\ engine' = "running" => listening'
          ELSE ~listening' /\ NotifiedV(out', "listening", FALSE)]_vars

\* C6: resetTranscript called while listening in continuous mode invokes abort
\* and leaves pauseAfterDisconnect false; the handler of the following end
\* event invokes start, and the restarted turn begins with empty interim and
\* final transcripts
C6_ResetRestartsWithClearedState ==
    [][/\ (step'.op = "resetTranscript" /\ listening /\ recognition.continuous)
            => (Has(out', "primitive", "abort") /\ ~pauseAfterDisconnect')
       /\ (step'.op = "end" /\ recognition.attached /\ recognition.continuous
                /\ hist.turnReq = "reset")
            => /\ Has(out', "primitive", "start")
               /\ listening' => (interimTranscript' = <<>> /\ finalTranscriptState' = <<>>)]_vars

\* C7: with the command 'clear' registered and bound to resetTranscript, a
\* result batch whose final text is "clear" and whose interim text is empty
\* invokes the callback exactly once, and afterwards the hook's transcript,
\* interimTranscript and finalTranscript are empty (HookSpec)
C7_ClearCommandResets ==
    (step.op = "result" /\ HookId \in subscribers
        /\ hist.lastFinal = Clear /\ hist.lastInterim = <<>>)
        => /\ Len(CallsOf(out, 1)) = 1
           /\ hook.interimTranscript = <<>>
           /\ hook.finalTranscript = <<>>
           /\ hookTranscript = <<>>

\* C8: startListening called while not listening, on a manager with a
\* recogniser, in non-continuous mode empties the interim and final
\* transcripts and emits the clear notification before it invokes start; in
\* continuous mode it leaves the interim and final transcripts unchanged
C8_StartClearsUnlessContinuous ==
    [][(step'.op = "startListening" /\ recognition.present)
       => IF step'.continuous
          THEN /\ interimTranscript' = interimTranscript
               /\ finalTranscriptState' = finalTranscriptState
          ELSE ~listening
                => /\ interimTranscript' = <<>>
                   /\ finalTranscriptState' = <<>>
                   /\ Before(out', "clear", TRUE, "primitive", "start")]_vars

\* A non-continuous startListening, called while not listening, that notified
\* the clear, invoked start and started a turn
C8_Witness ==
    /\ step.op = "startListening" /\ ~step.continuous /\ ~step.wasListening
    /\ \E i \in 1..Len(out) : out[i].t = "clear" /\ out[i].to # {}
    /\ Has(out, "primitive", "start")
    /\ listening
    /\ finalTranscriptState = <<>>

\* C9: the promise of a stopListening or abortListening called while listening
\* resolves at the end event or at the 100 ms timeout, and the promise of one
\* called while not listening resolves when the function returns
C9_ResolvesAtEndOrTimeout ==
    \A i \in 1..Len(out) :
        (out[i].t = "resolved" /\ out[i].v.kind \in {"stop", "abort"})
            => IF out[i].v.wasListening
               THEN out[i].v.by \in {"end", "timeout"}
               ELSE out[i].v.by = "return"

\* C10: every promise of stopListening or abortListening is eventually
\* resolved, whether or not the recogniser fires its end event (FairSpec)
C10_StopEventuallyResolves ==
    (stopCall.status # "none") ~> (stopCall.status = "none")

\* The promise of a stopListening called while listening has resolved and the
\* recogniser has not fired its end event
C10_Witness ==
    /\ step.op = "settle"
    /\ \E i \in 1..Len(out) :
            out[i].t = "resolved" /\ out[i].v.kind = "stop" /\ out[i].v.wasListening
    /\ engine = "stopping"

\* C11: a startListening that stops the current turn because the continuous
\* flag or the language differs does not invoke start in the same run: start
\* is invoked only once the stop has completed (the end event, or the timeout)
C11_ReconfigureWaitsForStop ==
    (step.op = "startListening" /\ step.wasListening /\ Has(out, "primitive", "stop"))
        => ~Has(out, "primitive", "start")

\* The original statement of C12: a startListening whose start fails with a
\* DOMException leaves listening, isMicrophoneAvailable and the interim and
\* final transcripts as they were and notifies no subscriber
C12_RedundantStartChangesNothing ==
    [][(step'.op = "startListening" /\ Has(out', "outcome", "DOMException"))
       => /\ listening' = listening
          /\ isMicrophoneAvailable' = isMicrophoneAvailable
          /\ interimTranscript' = interimTranscript
          /\ finalTranscriptState' = finalTranscriptState
          /\ \A i \in 1..Len(out') : out'[i].to = {}]_vars

\* C12: a start that fails with a DOMException is swallowed: nothing is
\* emitted after the failure but the resolution of the promise, listening is
\* false afterwards, isMicrophoneAvailable keeps its value, and the interim and
\* final transcripts are unchanged or were emptied by the clear that a
\* non-continuous startListening notifies before it invokes start
C12_RedundantStartIsSwallowed ==
    [][Has(out', "outcome", "DOMException")
       => /\ \A i, j \in 1..Len(out') :
                (out'[i].t = "outcome" /\ i < j) => out'[j].t = "resolved"
          /\ ~listening'
          /\ isMicrophoneAvailable' = isMicrophoneAvailable
          /\ ~HasT(out', "microphone") /\ ~Has(out', "listening", TRUE)
          /\ \/ (interimTranscript' = interimTranscript
                    /\ finalTranscriptState' = finalTranscriptState)
             \/ (NotifiedV(out', "clear", TRUE) /\ ~recognition'.continuous
                    /\ interimTranscript' = <<>> /\ finalTranscriptState' = <<>>)]_vars

\* A non-continuous startListening, called while the stopped turn had not
\* ended, that notified the clear and whose start failed with a DOMException
C12_Witness ==
    /\ step.op = "startListening" /\ ~step.wasListening /\ ~step.continuous
    /\ Has(out, "outcome", "DOMException")
    /\ NotifiedV(out, "clear", TRUE)
    /\ engine \in {"stopping", "aborting"}
    /\ isMicrophoneAvailable

\* C13: when start fails with another error than a DOMException,
\* isMicrophoneAvailable becomes false and false is notified, listening is
\* false and no listening = true is emitted for the attempt
C13_StartFailureMarksMicrophone ==
    Has(out, "outcome", "error")
        => /\ ~isMicrophoneAvailable
           /\ NotifiedV(out, "microphone", FALSE)
           /\ ~listening
           /\ ~Has(out, "listening", TRUE)

\* A startListening on an idle recogniser whose start failed, with the
\* microphone available before: the clear and then the failure were notified
C13_Witness ==
    /\ step.op = "startListening" /\ ~step.wasListening
    /\ Has(out, "outcome", "error")
    /\ Before(out, "primitive", "start", "microphone", FALSE)
    /\ ~isMicrophoneAvailable /\ ~listening
    /\ engine = "idle"

\* C14: once a start has failed with another error than a DOMException, no
\* startListening invokes start until the instance is replaced
C14_NoStartAfterFailure ==
    [][(step'.op = "startListening" /\ hist.startFailed /\ ~isMicrophoneAvailable)
       => ~Has(out', "primitive", "start")]_vars

\* C15: the handler of an error event 'not-allowed' makes isMicrophoneAvailable
\* false and notifies it, detaches the handlers of the instance and leaves
\* the session not listening; and an event of an instance whose handlers are
\* detached changes no transcript or session state and notifies nobody
C15_NotAllowedDisables ==
    [][/\ (Has(out', "error", "not-allowed") /\ recognition.attached)
            => /\ ~isMicrophoneAvailable'
               /\ NotifiedV(out', "microphone", FALSE)
               /\ ~recognition'.attached
               /\ ~listening'
       /\ (step'.op \in {"result", "end", "error"} /\ ~recognition.attached)
            => /\ \A i \in 1..Len(out') : out'[i].t = "error"
               /\ listening' = listening
               /\ isMicrophoneAvailable' = isMicrophoneAvailable
               /\ interimTranscript' = interimTranscript
               /\ finalTranscriptState' = finalTranscriptState
               /\ pauseAfterDisconnect' = pauseAfterDisconnect
               /\ hook' = hook]_vars

\* A result event of an instance that 'not-allowed' disabled and that was
\* started again: the manager listens and the event changed nothing
C15_Witness ==
    /\ step.op = "result"
    /\ recognition.present /\ ~recognition.attached
    /\ ~isMicrophoneAvailable
    /\ listening
    /\ out = <<>>

\* C16: every setSpeechRecognition on a manager that has an instance stops
\* that instance if it was listening and leaves the manager not listening,
\* with a new instance in its place or with the handlers of the old one
\* detached; the subscribers are unchanged
C16_ReplacementDisablesPrevious ==
    [][(step'.op = "setSpeechRecognition" /\ recognition.present)
       => /\ listening => Has(out', "primitive", "stop")
          /\ ~listening'
          /\ \/ Has(out', "browserSupport", TRUE)
             \/ ~recognition'.present
             \/ ~recognition'.attached
          /\ subscribers' = subscribers]_vars

\* C17: on a manager without a recogniser, startListening, stopListening,
\* abortListening and resetTranscript invoke no primitive, reject no promise,
\* and leave listening, isMicrophoneAvailable and the transcripts unchanged
C17_NoRecogniserNoOp ==
    [][(~recognition.present
            /\ step'.op \in {"startListening", "stopListening", "abortListening",
                             "resetTranscript"})
       => /\ ~HasT(out', "primitive") /\ ~HasT(out', "rejected")
          /\ listening' = listening
          /\ isMicrophoneAvailable' = isMicrophoneAvailable
          /\ interimTranscript' = interimTranscript
          /\ finalTranscriptState' = finalTranscriptState]_vars

\* A startListening on a manager without a recogniser has returned
C17_Witness ==
    /\ ~recognition.present
    /\ step.op = "startListening"
    /\ \E i \in 1..Len(out) : out[i].t = "resolved" /\ out[i].v.kind = "start"
    /\ ~listening /\ engine = "idle"

\* C18: no promise of startListening, stopListening or abortListening is
\* rejected: a startListening has resolved when it returns, whatever the
\* outcome of start, and a stopListening or abortListening leaves a promise
\* that the next continuation resolves
C18_PublicCallsNeverReject ==
    /\ ~HasT(out, "rejected")
    /\ step.op = "startListening"
            => \E i \in 1..Len(out) : out[i].t = "resolved" /\ out[i].v.kind = "start"
    /\ step.op = "stopListening" => (stopCall.kind = "stop" /\ stopCall.status = "returning")
    /\ step.op = "abortListening" => (stopCall.kind = "abort" /\ stopCall.status = "returning")
    /\ step.op = "settle"
            => \E i \in 1..Len(out) :
                    out[i].t = "resolved" /\ out[i].v.kind \in {"stop", "abort"}

\* A startListening whose start failed with another error than a
\* DOMException, on a recogniser in continuous mode, has resolved
C18_Witness ==
    /\ step.op = "startListening" /\ step.continuous
    /\ Has(out, "outcome", "error")
    /\ \E i \in 1..Len(out) :
            out[i].t = "resolved" /\ out[i].v.kind = "start" /\ out[i].v.by = "return"

\* The alternatives of command c that match the test string, in order
MatchingAlternatives(c, testTranscript) ==
    SelectSeq([a \in 1..Len(commands[c].command) |-> a],
              LAMBDA a : matchExact(commands[c].command[a], testTranscript).ok)

\* The transcript notifications of the step that reached the hook
Updates(o) == SelectSeq(o, LAMBDA e : e.t = "transcript" /\ HookId \in e.to)

\* C19: on a transcript update whose interim text is not empty no command
\* with matchInterim false is invoked, and on an update whose combined
\* transcript is empty or blank no command is invoked (HookSpec)
C19_InterimAndBlankUpdatesSkipped ==
    \A u \in 1..Len(Updates(out)) :
        LET v == Updates(out)[u].v
        IN  /\ v.interimTranscript # <<>>
                => \A c \in 1..Len(commands) :
                        ~commands[c].matchInterim => CallsOf(out, c) = <<>>
            /\ trim(concatTranscripts(<<v.finalTranscript, v.interimTranscript>>)) = <<>>
                => ~HasT(out, "callback")

\* An update with interim text whose final text alone matches 'clear': the
\* command that matches interim text was invoked, 'clear' was not
C19_Witness ==
    /\ step.op = "result"
    /\ Len(Updates(out)) = 1
    /\ Updates(out)[1].v.interimTranscript # <<>>
    /\ matchExact(Clear, Updates(out)[1].v.finalTranscript).ok
    /\ CallsOf(out, 1) = <<>>
    /\ CallsOf(out, 2) # <<>>

\* C20: on a transcript update, the callback of a command in exact mode that
\* is not skipped is invoked once for every alternative that matches the test
\* string, in order, with the captures as arguments and the matched pattern
\* in the context object (HookSpec)
C20_OneCallPerMatchingAlternative ==
    \A u \in 1..Len(Updates(out)) : \A c \in 1..Len(commands) :
        LET v == Updates(out)[u].v
            transcript == concatTranscripts(<<v.finalTranscript, v.interimTranscript>>)
            testTranscript == IF commands[c].matchInterim THEN transcript
                              ELSE v.finalTranscript
            skipped == \/ v.interimTranscript # <<>> /\ ~commands[c].matchInterim
                       \/ trim(transcript) = <<>>
                       \/ trim(testTranscript) = <<>>
            expected == IF skipped THEN <<>> ELSE MatchingAlternatives(c, testTranscript)
            calls == CallsOf(out, c)
        IN  ~commands[c].isFuzzyMatch
                => /\ Len(calls) = Len(expected)
                   /\ \A k \in 1..Len(calls) :
                        /\ calls[k].v.alternative = expected[k]
                        /\ calls[k].v.matched = commands[c].command[expected[k]]
                        /\ calls[k].v.parameters
                                = matchExact(commands[c].command[expected[k]], testTranscript).caps

\* An update on which three alternatives of one command matched, the second
\* and third call with different captures
C20_Witness ==
    /\ step.op = "result"
    /\ Len(Updates(out)) = 1
    /\ Len(CallsOf(out, 2)) = 3
    /\ CallsOf(out, 2)[1].v.parameters # <<>>
    /\ CallsOf(out, 2)[1].v.parameters # CallsOf(out, 2)[2].v.parameters
    /\ CallsOf(out, 2)[1].v.alternative < CallsOf(out, 2)[2].v.alternative

\* A command without parameters, splats and optional parts
IsLiteral(cmd) == \A i \in 1..Len(cmd) : IsAlphaNum(cmd[i]) \/ cmd[i] = " "

\* C21: in exact mode a list of literal commands matches a transcript exactly
\* when one of them is the transcript up to case, and matchCommand then
\* reports a match with the empty parameter list, which is not the no-match
\* result; a list of commands matches when one of its commands does; the
\* callback of the literal command 'clear' of the hook is called once, with
\* no parameter before the context
C21_LiteralMatchHasEmptyParameters ==
    /\ step.op = "matchCommand" /\ ~hist.isFuzzyMatch =>
          /\ hist.r.isMatch <=>
                \E a \in 1..Len(hist.command) : matchExact(hist.command[a], hist.x).ok
          /\ (\A a \in 1..Len(hist.command) : IsLiteral(hist.command[a])) =>
                /\ hist.r.isMatch <=>
                      \E a \in 1..Len(hist.command) :
                          toLowerCase(hist.x) = toLowerCase(hist.command[a])
                /\ hist.r.isMatch =>
                      /\ hist.r = [isMatch |-> TRUE, parameters |-> <<>>]
                      /\ hist.r # NoMatchResult
    /\ step.op = "matchCommands" /\ toLowerCase(hist.x) = Clear =>
          /\ Len(CallsOf(out, 1)) = 1
          /\ CallsOf(out, 1)[1].v.parameters = <<>>

C21_Witness ==
    /\ step.op = "matchCommand"
    /\ hist.command = << <<"b">>, <<"a", "b">> >>
    /\ hist.x = <<"A", "b">>
    /\ hist.r = [isMatch |-> TRUE, parameters |-> <<>>]

\* C22: on a transcript update, a command in fuzzy mode that is not skipped
\* is invoked, with bestMatchOnly, at most once: not at all when no
\* alternative has a similarity at or above the threshold of the command,
\* and otherwise for the first of the alternatives that have the highest
\* similarity; without bestMatchOnly it is invoked once for every alternative
\* at or above the threshold, in order (HookSpec)
C22_BestMatchOnlyCallsTheFirstBest ==
    \A u \in 1..Len(Updates(out)) : \A c \in 1..Len(commands) :
        LET v == Updates(out)[u].v
            transcript == concatTranscripts(<<v.finalTranscript, v.interimTranscript>>)
            testTranscript == IF commands[c].matchInterim THEN transcript
                              ELSE v.finalTranscript
            skipped == \/ v.interimTranscript # <<>> /\ ~commands[c].matchInterim
                       \/ trim(transcript) = <<>>
                       \/ trim(testTranscript) = <<>>
            sim(a) == compareTwoStringsUsingDiceCoefficient(
                          cleanCommand(commands[c].command[a]), testTranscript)
            above == IF skipped THEN <<>>
                     ELSE SelectSeq([a \in 1..Len(commands[c].command) |-> a],
                                    LAMBDA a : FracGeq(sim(a), commands[c].fuzzyMatchingThreshold))
            isBest(a) == /\ \A k \in 1..Len(above) : FracGeq(sim(a), sim(above[k]))
                         /\ \A k \in 1..Len(above) :
                                FracGeq(sim(above[k]), sim(a)) => a <= above[k]
            calls == CallsOf(out, c)
        IN  commands[c].isFuzzyMatch
                => IF commands[c].bestMatchOnly
                   THEN /\ Len(calls) <= 1
                        /\ calls = <<>> <=> above = <<>>
                        /\ calls # <<>> =>
                              /\ \E k \in 1..Len(above) : calls[1].v.alternative = above[k]
                              /\ isBest(calls[1].v.alternative)
                              /\ calls[1].v.similarity = sim(calls[1].v.alternative)
                   ELSE /\ Len(calls) = Len(above)
                        /\ \A k \in 1..Len(calls) : calls[k].v.alternative = above[k]

\* An update on which all three alternatives are at or above the threshold:
\* the command with bestMatchOnly was invoked for the second, which has a
\* higher similarity than the first and the same as the third
C22_Witness ==
    /\ step.op = "result"
    /\ Len(Updates(out)) = 1
    /\ Len(CallsOf(out, 4)) = 3
    /\ Len(CallsOf(out, 3)) = 1
    /\ CallsOf(out, 3)[1].v.alternative = 2
    /\ FracGt(CallsOf(out, 4)[2].v.similarity, CallsOf(out, 4)[1].v.similarity)
    /\ CallsOf(out, 4)[2].v.similarity = CallsOf(out, 4)[3].v.similarity

\* C23: on a transcript update no exception leaves the result handler, every
\* command that is not skipped and has an alternative that matches is
\* invoked, and every subscriber receives the notification (FailingSpec)
C23_CallbackFailureIsContained ==
    /\ ~HasT(out, "thrown")
    /\ \A i \in 1..Len(out) : out[i].t = "transcript" => out[i].to = subscribers
    /\ \A u \in 1..Len(Updates(out)) : \A c \in 1..Len(commands) :
          LET v == Updates(out)[u].v
              transcript == concatTranscripts(<<v.finalTranscript, v.interimTranscript>>)
              testTranscript == IF commands[c].matchInterim THEN transcript
                                ELSE v.finalTranscript
              skipped == \/ v.interimTranscript # <<>> /\ ~commands[c].matchInterim
                         \/ trim(transcript) = <<>>
                         \/ trim(testTranscript) = <<>>
          IN  ~skipped /\ MatchingAlternatives(c, testTranscript) # <<>>
                  => CallsOf(out, c) # <<>>

\* C24: after abortListening was called while listening, the interim
\* transcript of the manager and the interim transcript the hook returns are
\* empty (HookSpec)
C24_AbortDiscardsInterim ==
    step.op = "abortListening" /\ step.wasListening
        => /\ interimTranscript = <<>>
           /\ hook.interimTranscript = <<>>

\* The handling of a result batch by the attached instance after the stop
\* primitive was invoked and before the end event of the turn
PostStopBatch == step'.op = "result" /\ engine = "stopping" /\ recognition.attached

\* C25 as stated: a batch delivered after stopListening and before the end
\* event has its final text appended to the final transcript and is followed
\* by a transcript notification, while listening is false (FoldSpec)
C25_PostStopBatchNotified ==
    [][PostStopBatch =>
          /\ ~listening'
          /\ finalTranscriptState' = concatTranscripts(<<finalTranscriptState, hist'.lastFinal>>)
          /\ Notified(out', "transcript")]_vars

\* C25: a batch delivered after stopListening and before the end event is
\* handled as any other batch, while listening is false: its final text is
\* appended to the final transcript, its interim text becomes the interim
\* transcript, and the transcript notification, which carries both, is
\* emitted unless the batch and the batch before it were both a single final
\* result without interim text (FoldSpec)
C25_PostStopBatchProcessed ==
    [][PostStopBatch =>
          /\ ~listening'
          /\ finalTranscriptState' = concatTranscripts(<<finalTranscriptState, hist'.lastFinal>>)
          /\ interimTranscript' = hist'.lastInterim
          /\ Notified(out', "transcript")
                <=> ~(previousResultWasFinalOnly /\ previousResultWasFinalOnly')
          /\ Notified(out', "transcript")
                => Has(out', "transcript", [interimTranscript |-> interimTranscript',
                                            finalTranscript |-> finalTranscriptState'])]_vars

\* A batch handled after stopListening whose final text was appended to a
\* final transcript that was not empty, and notified
C25_Witness ==
    /\ step.op = "result"
    /\ engine = "stopping"
    /\ ~listening
    /\ hist.lastFinal # <<>>
    /\ Len(Tokens(finalTranscriptState)) = 2
    /\ Has(out, "transcript", [interimTranscript |-> <<>>, finalTranscript |-> finalTranscriptState])

\* C26: removeDuplicateWords applied to its own result returns that result (WordsSpec)
C26_RemoveDuplicateWordsIdempotent ==
    hist.calls = 2 => hist.r = hist.arg

\* An input with two words that differ in case only before another word,
\* reduced by the first call and returned as it is by the second
C26_Witness ==
    /\ hist.calls = 2
    /\ hist.x = <<"a", " ", "A", " ", "b">>
    /\ hist.arg = <<"a", " ", "b">>
    /\ hist.r = <<"a", " ", "b">>

\* The case-insensitive, punctuation-stripped form of a token
Form(w) == SelectSeq([i \in 1..Len(w) |-> LowerChar(w[i])], IsWordChar)

\* The positions of the tokens of ws that are the first token or differ in
\* form from the token before them
KeptPositions(ws) ==
    SelectSeq([i \in 1..Len(ws) |-> i], LAMBDA i : i = 1 \/ Form(ws[i]) # Form(ws[i - 1]))

\* s has no leading, trailing or double space
SingleSpaced(s) ==
    /\ s # <<>> => ~IsSpace(s[1]) /\ ~IsSpace(s[Len(s)])
    /\ \A i \in 1..(Len(s) - 1) : ~(IsSpace(s[i]) /\ IsSpace(s[i + 1]))

\* C27: the result of removeDuplicateWords consists of the tokens of the
\* input that are the first token or differ in form from the token before
\* them in the input, unchanged and in order, separated by single spaces;
\* it is empty for an empty or blank input (WordsSpec)
C27_KeepsFirstOfEveryRun ==
    hist.calls = 1 =>
        LET ws == Tokens(hist.x)
            kept == KeptPositions(ws)
        IN  /\ Tokens(hist.r) = [k \in 1..Len(kept) |-> ws[kept[k]]]
            /\ SingleSpaced(hist.r)
            /\ (\A i \in 1..Len(hist.x) : IsSpace(hist.x[i])) => hist.r = <<>>

\* Two tokens that differ only in case and punctuation collapse to the
\* first, which keeps its case and punctuation
C27_Witness ==
    /\ hist.calls = 1
    /\ hist.x = <<"A", ",", " ", "a">>
    /\ hist.r = <<"A", ",">>

\* What the statements about concatTranscripts have in common: the result
\* is removeDuplicateWords of the trimmed fragments joined by single spaces,
\* has no leading or trailing space, is the same with an empty fragment
\* between the two, and has the tokens the two fragments have after
\* removeDuplicateWords, less one when the last token of the first and the
\* first token of the second have the same form
ConcatJoinsAndRemoves ==
    LET x == hist.x
        y == hist.y
        dx == Tokens(removeDuplicateWords(x))
        dy == Tokens(removeDuplicateWords(y))
        shared == /\ dx # <<>> /\ dy # <<>>
                  /\ Form(dx[Len(dx)]) = Form(dy[1])
    IN  /\ hist.r = removeDuplicateWords(trim(x) \o <<" ">> \o trim(y))
        /\ hist.r # <<>> => ~IsSpace(hist.r[1]) /\ ~IsSpace(hist.r[Len(hist.r)])
        /\ Len(Tokens(hist.r)) = Len(dx) + Len(dy) - (IF shared THEN 1 ELSE 0)
        /\ shared => Tokens(hist.r) = dx \o Tail(dy)

\* C28 as stated: with an empty fragment the result is the other fragment, trimmed (ConcatSpec)
C28_EmptyFragmentGivesTrimmed ==
    step.op = "concatTranscripts" =>
        /\ ConcatJoinsAndRemoves
        /\ hist.x = <<>> => hist.r = trim(hist.y)
        /\ hist.y = <<>> => hist.r = trim(hist.x)

\* C28: concatTranscripts is removeDuplicateWords of the trimmed fragments
\* joined by single spaces; the result has no leading or trailing space; an
\* empty fragment contributes nothing, so that with an empty fragment the
\* result is removeDuplicateWords of the other; a token that ends one
\* fragment and starts the next appears once (ConcatSpec)
C28_ConcatIsRemoveDuplicatesOfJoin ==
    step.op = "concatTranscripts" =>
        /\ ConcatJoinsAndRemoves
        /\ hist.x = <<>> => hist.r = removeDuplicateWords(hist.y)
        /\ hist.y = <<>> => hist.r = removeDuplicateWords(hist.x)

\* The token that ends the first fragment starts the second, in another case
C28_Witness ==
    /\ step.op = "concatTranscripts"
    /\ hist.x = <<"b", " ", "a">>
    /\ hist.y = <<"A", " ", "b">>
    /\ hist.r = <<"b", " ", "a", " ", "b">>

\* The bigrams of a string, and the number of occurrences of b in a sequence
Bigrams(s) == [i \in 1..(Len(s) - 1) |-> SubSeq(s, i, i + 1)]
Occurrences(seq, b) == Cardinality({i \in 1..Len(seq) : seq[i] = b})

\* The size of the intersection of the multisets of the elements of f and g
RECURSIVE SharedIn(_, _, _)
SharedIn(bs, f, g) ==
    IF bs = {} THEN 0
    ELSE LET b == CHOOSE e \in bs : TRUE
             m == IF Occurrences(f, b) < Occurrences(g, b) THEN Occurrences(f, b)
                  ELSE Occurrences(g, b)
         IN  m + SharedIn(bs \ {b}, f, g)

Shared(f, g) == SharedIn({f[i] : i \in 1..Len(f)}, f, g)

\* C29: the similarity of x and y is 1 when they are identical without
\* their whitespace, 0 when they differ and one has fewer than 2 characters,
\* and otherwise twice the size of the multiset intersection of their
\* bigrams over the sum of their lengths less 2; it lies in [0, 1] and is the
\* same with the arguments swapped (DiceSpec)
C29_DiceCoefficient ==
    step.op = "compareTwoStringsUsingDiceCoefficient" =>
        LET first == SelectSeq(hist.x, LAMBDA c : c # " ")
            second == SelectSeq(hist.y, LAMBDA c : c # " ")
            r == hist.r
        IN  /\ r.d > 0 /\ 0 <= r.n /\ r.n <= r.d
            /\ r.n * hist.swapped.d = hist.swapped.n * r.d
            /\ IF first = second THEN r.n = r.d
               ELSE IF Len(first) < 2 \/ Len(second) < 2 THEN r.n = 0
               ELSE r.n * (Len(first) + Len(second) - 2)
                        = 2 * Shared(Bigrams(first), Bigrams(second)) * r.d

\* Two strings that share one of the two occurrences of a bigram: 2 * 1 / 4
C29_Witness ==
    /\ step.op = "compareTwoStringsUsingDiceCoefficient"
    /\ hist.x = <<"a", " ", "a", "a">>
    /\ hist.y = <<"a", "a", "b">>
    /\ hist.r.n * 2 = hist.r.d
    /\ hist.swapped.n * 2 = hist.swapped.d

\* x is, up to case, the literal text followed by one token without whitespace
IsTextThenToken(text, x) ==
    /\ Len(x) > Len(text)
    /\ toLowerCase(SubSeq(x, 1, Len(text))) = toLowerCase(text)
    /\ \A i \in (Len(text) + 1)..Len(x) : ~IsSpace(x[i])

\* C30: in exact mode a literal command matches exactly the transcripts
\* that are the command up to case, nothing before or after it; a command
\* that ends with a named parameter matches exactly the transcripts that
\* are its literal text up to case followed by one token without
\* whitespace, and the token is the one parameter: 'I am :name' matches
\* 'I am John' with the parameter 'John' and does not match
\* 'I am Mary Smith' (MatchSpec)
C30_AnchoredAndOneTokenParameter ==
    step.op = "matchCommand" /\ ~hist.isFuzzyMatch /\ Len(hist.command) = 1 =>
        LET cmd == hist.command[1]
            text == SubSeq(cmd, 1, Len(cmd) - (IF cmd = IAmName THEN 5 ELSE 2))
        IN  /\ IsLiteral(cmd) => (hist.r.isMatch <=> toLowerCase(hist.x) = toLowerCase(cmd))
            /\ ~IsLiteral(cmd) =>
                  /\ hist.r.isMatch <=> IsTextThenToken(text, hist.x)
                  /\ hist.r.isMatch =>
                        hist.r.parameters = <<SubSeq(hist.x, Len(text) + 1, Len(hist.x))>>
            /\ cmd = IAmName /\ hist.x = IAmJohn =>
                  hist.r = [isMatch |-> TRUE, parameters |-> << <<"J", "o", "h", "n">> >>]
            /\ cmd = IAmName /\ hist.x = IAmMarySmith => hist.r = NoMatchResult

\* 'I am :name' was matched against 'I am John'
C30_Witness ==
    /\ step.op = "matchCommand"
    /\ ~hist.isFuzzyMatch
    /\ hist.command = <<IAmName>>
    /\ hist.x = IAmJohn
    /\ hist.r.isMatch

\* The transcripts of the results of the given finality from index
\* resultIndex on (0-based), in order
Processed(results, resultIndex, final) ==
    LET rs == SelectSeq(SubSeq(results, resultIndex + 1, Len(results)),
                        LAMBDA x : x.isFinal = final)
    IN  [k \in 1..Len(rs) |-> rs[k].transcript]

\* The strings of a sequence one after the other
RECURSIVE Flat(_)
Flat(ts) == IF ts = <<>> THEN <<>> ELSE Head(ts) \o Flat(Tail(ts))

\* C31: the final transcript is the transcripts of the final results at
\* index resultIndex or above appended one to the other, the interim
\* transcript those of the results that are not final: a final 'Hello '
\* followed by an interim 'world' gives 'Hello ' and 'world', the empty
\* list two empty strings (ParseSpec)
C31_AppendsFromResultIndex ==
    step.op = "parseResultsToTranscript" =>
        /\ hist.r.finalTranscript = Flat(Processed(hist.results, hist.resultIndex, TRUE))
        /\ hist.r.interimTranscript = Flat(Processed(hist.results, hist.resultIndex, FALSE))

\* C40: the tokens of the final and of the interim transcript are the tokens
\* of the results of that finality, in order, without those that repeat the
\* token before them: no token is made of the last word of one result and
\* the first word of the next (ParseSpec)
C40_WordsOfResultsStaySeparate ==
    step.op = "parseResultsToTranscript" =>
        /\ Tokens(hist.r.finalTranscript)
              = Tokens(removeDuplicateWords(
                    joinWords(Processed(hist.results, hist.resultIndex, TRUE))))
        /\ Tokens(hist.r.interimTranscript)
              = Tokens(removeDuplicateWords(
                    joinWords(Processed(hist.results, hist.resultIndex, FALSE))))

\* C32: with transcribing false, the handling of a result batch leaves the
\* interim and final transcript of the hook unchanged, and on every update
\* that reaches the hook each command in exact mode that is not skipped is
\* invoked once for every alternative that matches (NotTranscribingSpec)
C32_NotTranscribingStillMatches ==
    [][step'.op = "result" /\ ~hook.transcribing =>
          /\ hook'.interimTranscript = hook.interimTranscript
          /\ hook'.finalTranscript = hook.finalTranscript
          /\ \A u \in 1..Len(Updates(out')) : \A c \in 1..Len(commands) :
                LET v == Updates(out')[u].v
                    transcript == concatTranscripts(<<v.finalTranscript, v.interimTranscript>>)
                    testTranscript == IF commands[c].matchInterim THEN transcript
                                      ELSE v.finalTranscript
                    skipped == \/ v.interimTranscript # <<>> /\ ~commands[c].matchInterim
                               \/ trim(transcript) = <<>>
                               \/ trim(testTranscript) = <<>>
                    expected == IF skipped THEN <<>>
                                ELSE MatchingAlternatives(c, testTranscript)
                IN  ~commands[c].isFuzzyMatch
                        => Len(CallsOf(out', c)) = Len(expected)]_vars

\* An update with final text reached the hook: a command was invoked and
\* the transcripts of the hook are still empty
C32_Witness ==
    /\ step.op = "result"
    /\ ~hook.transcribing
    /\ Len(Updates(out)) = 1
    /\ Updates(out)[1].v.finalTranscript # <<>>
    /\ CallsOf(out, 2) # <<>>
    /\ hook.finalTranscript = <<>>
    /\ hook.interimTranscript = <<>>

\* The notifications of the manager
Notifications == {"listening", "microphone", "transcript", "clear", "browserSupport"}

\* C33: the bundles registered are those subscribed and not unsubscribed
\* since, one for an id; every notification is delivered to exactly those,
\* so none to a bundle that was unsubscribed and each to every other; no
\* command callback of the hook runs while the hook is unsubscribed (SubscribeSpec)
C33_OnlyTheRegisteredAreNotified ==
    /\ subscribers = hist.registered
    /\ \A i \in 1..Len(out) :
          out[i].t \in Notifications => out[i].to = hist.registered
    /\ HookId \notin hist.registered => ~HasT(out, "callback")

\* A result batch handled after the hook was unsubscribed: the other bundle
\* received the transcript notification, the hook did not
C33_Witness ==
    /\ step.op = "result"
    /\ hist.registered = {"1"}
    /\ \E i \in 1..Len(out) : out[i].t = "transcript" /\ out[i].to = {"1"}
    /\ hook.finalTranscript = <<>>
    /\ finalTranscriptState # <<>>

\* C34: the handling of a result batch is followed by a transcript
\* notification unless the batch and the batch handled before it both
\* consisted of exactly one result, marked final, with empty parsed interim
\* text; so a batch with interim text, with more than one result, or after a
\* batch that was not of that form is notified (PairSpec)
C34_SuppressedOnlyAfterFinalOnly ==
    step.op = "result" /\ recognition.attached =>
        /\ hist.cur.notified <=> ~(hist.prev.finalOnly /\ hist.cur.finalOnly)
        /\ hist.cur.notified <=> Notified(out, "transcript")
        /\ interimTranscript # <<>> => hist.cur.notified

\* A batch of two results, the processed one final, handled after a single
\* final result: it was notified
C34_Witness ==
    /\ step.op = "result"
    /\ hist.prev.finalOnly
    /\ ~hist.cur.finalOnly
    /\ interimTranscript = <<>>
    /\ hist.cur.notified

\* C35: after the handling of a result batch whose transcript notification
\* reached a hook with transcribing enabled, and in which no command reset
\* the transcript, the final transcript of the hook is the final transcript
\* of the manager (HookSpec)
C35_HookFinalIsManagerFinal ==
    step.op = "result" /\ hook.transcribing /\ Updates(out) # <<>> /\ CallsOf(out, 1) = <<>>
        => hook.finalTranscript = finalTranscriptState

\* C36: the handling of a result batch that changes the final transcript
\* of the manager emits a transcript notification that carries the new
\* final transcript (FoldSpec)
C36_FinalNeverAdvancesSilently ==
    [][step'.op = "result" /\ finalTranscriptState' # finalTranscriptState =>
          \E i \in 1..Len(out') :
              /\ out'[i].t = "transcript"
              /\ out'[i].to # {}
              /\ out'[i].v.finalTranscript = finalTranscriptState']_vars

\* C37: whenever no call of the manager is suspended and the instance is
\* not between a stop or abort and its end event, the listening value the
\* subscribers were notified of last is the listening flag of the manager (Spec)
C37_NotifiedListeningIsTheFlag ==
    (/\ stopCall.status = "none" /\ ~pendingStart.active
     /\ engine \in {"idle", "running"})
        => hist.notifiedListening = listening

\* C38: whenever the start primitive has just been invoked and has started a
\* new turn, the pause-after-disconnect flag is false: no pause requested for an earlier
\* turn or for a disabled or replaced instance is left over (Spec)
C38_NoPauseLeftAtStart ==
    Has(out, "primitive", "start") /\ Has(out, "outcome", "ok")
        => ~pauseAfterDisconnect

\* C39: once isMicrophoneAvailable has been false it is false in every later
\* state, and no step notifies the subscribers of an available microphone (Spec)
C39_MicrophoneNeverComesBack ==
    /\ hist.microphoneLost => ~isMicrophoneAvailable
    /\ ~Has(out, "microphone", TRUE)

\* the microphone was lost before a start that succeeded, and before the
\* recognizer implementation was replaced
C39_Witness ==
    /\ hist.microphoneLost /\ ~isMicrophoneAvailable
    /\ \/ step.op = "startListening" /\ Has(out, "outcome", "ok") /\ listening
       \/ step.op = "setSpeechRecognition" /\ recognition = NewRecognition

====
